---------------------------- MODULE Spec2Model ----------------------------
(***************************************************************************)
(* The statement-table extraction engine of FileParsingService: the format *)
(* dispatcher, the three extractors, header resolution, continuation       *)
(* merging, the field normalizers, the transaction assembler and the       *)
(* validator.                                                              *)
(*                                                                         *)
(* A JavaScript string is a sequence of one-character strings, so that     *)
(* trimming, searching, splitting and the regular expressions of the       *)
(* source are computed character by character.  A number holding an amount *)
(* is an integer count of hundredths (100.00 is 10000).  An optional value *)
(* (undefined in the source) is the empty sequence, a present one a        *)
(* one-element sequence.                                                   *)
(***************************************************************************)
EXTENDS Integers, Sequences, FiniteSets, TLC

VARIABLES
    pc,         \* position of the call in progress
    file,       \* the File handed to parseFile: [type, name, content]
    extractor,  \* the extractor parseFile delegated to ("none" before)
    table,      \* the ParsedTable returned (None until a parse returns)
    err,        \* the error raised ("" while none was)
    arg,        \* argument of a normalizer or validator call
    ret,        \* its return value
    isProcessing,      \* the processing flag of the upload form
    receiptsBucket,    \* the objects of the storage bucket 'receipts'
    receiptsTable,     \* the records of the table 'receipts'
    transactionsTable, \* the records of the table 'transactions'
    calls              \* the TransactionService methods invoked, in order

\* what the upload mutation works on besides the parse
uploadVars == <<isProcessing, receiptsBucket, receiptsTable, transactionsTable, calls>>

vars == <<pc, file, extractor, table, err, arg, ret, uploadVars>>

None == << >>
Some(v) == <<v>>

(***************************************************************************)
(* Characters and the String methods the source uses                       *)
(***************************************************************************)
Digits == {"0", "1", "2", "3", "4", "5", "6", "7", "8", "9"}
UpperLetters == <<"A","B","C","D","E","F","G","H","I","J","K","L","M","N","O","P","Q","R","S","T","U","V","W","X","Y","Z">>
LowerLetters == <<"a","b","c","d","e","f","g","h","i","j","k","l","m","n","o","p","q","r","s","t","u","v","w","x","y","z">>
Upper == {UpperLetters[i] : i \in 1..26}
Lower == {LowerLetters[i] : i \in 1..26}
Letters == Upper \cup Lower

\* \s of a regular expression, and the characters trim() removes
IsSpace(c) == c \in {" ", "\t", "\n", "\r"}
\* \w of a regular expression
IsWordChar(c) == c \in Digits \cup Letters \cup {"_"}

toLowerChar(c) ==
    IF c \in Upper
    THEN LowerLetters[CHOOSE i \in 1..26 : UpperLetters[i] = c]
    ELSE c

RECURSIVE toLowerCase(_)
toLowerCase(s) ==
    IF s = << >> THEN << >> ELSE <<toLowerChar(Head(s))>> \o toLowerCase(Tail(s))

RECURSIVE trimStart(_)
trimStart(s) ==
    IF s # << >> /\ IsSpace(Head(s)) THEN trimStart(Tail(s)) ELSE s

RECURSIVE trimEnd(_)
trimEnd(s) ==
    IF s # << >> /\ IsSpace(s[Len(s)]) THEN trimEnd(SubSeq(s, 1, Len(s) - 1)) ELSE s

trim(s) == trimEnd(trimStart(s))

\* s.includes(sub)
includes(s, sub) ==
    \E i \in 0..(Len(s) - Len(sub)) : SubSeq(s, i + 1, i + Len(sub)) = sub

\* s.endsWith(suffix)
endsWith(s, suffix) ==
    /\ Len(suffix) <= Len(s)
    /\ SubSeq(s, Len(s) - Len(suffix) + 1, Len(s)) = suffix

\* parts.join(sep)
RECURSIVE join(_, _)
join(parts, sep) ==
    IF parts = << >> THEN << >>
    ELSE IF Len(parts) = 1 THEN parts[1]
    ELSE parts[1] \o sep \o join(Tail(parts), sep)

\* s.split(c) for a one-character separator c
RECURSIVE splitChar(_, _)
splitChar(s, c) ==
    IF \A i \in 1..Len(s) : s[i] # c THEN <<s>>
    ELSE LET k == CHOOSE i \in 1..Len(s) :
                      s[i] = c /\ \A j \in 1..(i - 1) : s[j] # c
         IN  <<SubSeq(s, 1, k - 1)>> \o splitChar(SubSeq(s, k + 1, Len(s)), c)

\* s.replace(/\s+/g, " ")
RECURSIVE collapseSpaces(_)
collapseSpaces(s) ==
    IF s = << >> THEN << >>
    ELSE IF IsSpace(Head(s))
         THEN <<" ">> \o collapseSpaces(trimStart(s))
         ELSE <<Head(s)>> \o collapseSpaces(Tail(s))

\* s.replace(/\s+/g, "")
removeSpaces(s) == SelectSeq(s, LAMBDA c : ~IsSpace(c))

\* the number a run of decimal digits denotes
DigitValue(c) ==
    CASE c = "0" -> 0 [] c = "1" -> 1 [] c = "2" -> 2 [] c = "3" -> 3
      [] c = "4" -> 4 [] c = "5" -> 5 [] c = "6" -> 6 [] c = "7" -> 7
      [] c = "8" -> 8 [] c = "9" -> 9

RECURSIVE DigitsToInt(_)
DigitsToInt(ds) ==
    IF ds = << >> THEN 0
    ELSE 10 * DigitsToInt(SubSeq(ds, 1, Len(ds) - 1)) + DigitValue(ds[Len(ds)])

DigitChar(n) == <<"0","1","2","3","4","5","6","7","8","9">>[n + 1]

RECURSIVE IntToDigits(_)
IntToDigits(n) ==
    IF n < 10 THEN <<DigitChar(n)>>
    ELSE IntToDigits(n \div 10) \o <<DigitChar(n % 10)>>

\* the length of the longest prefix of s made of digits
RECURSIVE DigitRun(_)
DigitRun(s) ==
    IF s # << >> /\ Head(s) \in Digits THEN 1 + DigitRun(Tail(s)) ELSE 0

AllDigits(s) == \A i \in 1..Len(s) : s[i] \in Digits

(***************************************************************************)
(* Field normalizers: parseAmount                                          *)
(***************************************************************************)
\* the alternatives of /(etb|birr|usd|\$)/gi, in the order the pattern tries them
CurrencyTokens == <<<<"e","t","b">>, <<"b","i","r","r">>, <<"u","s","d">>, <<"$">>>>

CurrencyAt(s) ==
    {k \in 1..Len(CurrencyTokens) :
        /\ Len(CurrencyTokens[k]) <= Len(s)
        /\ toLowerCase(SubSeq(s, 1, Len(CurrencyTokens[k]))) = CurrencyTokens[k]}

\* s.replace(/(etb|birr|usd|\$)/gi, "")
RECURSIVE removeCurrency(_)
removeCurrency(s) ==
    IF s = << >> THEN << >>
    ELSE IF CurrencyAt(s) # {}
         THEN LET k == CHOOSE k \in CurrencyAt(s) : \A j \in CurrencyAt(s) : k <= j
              IN  removeCurrency(SubSeq(s, Len(CurrencyTokens[k]) + 1, Len(s)))
         ELSE <<Head(s)>> \o removeCurrency(Tail(s))

\* s.replace(/[^\d.,-]/g, "")
keepAmountChars(s) == SelectSeq(s, LAMBDA c : c \in Digits \cup {".", ",", "-"})

\* tmp.replace(/,/g, "")
removeCommas(s) == SelectSeq(s, LAMBDA c : c # ",")

\* parts.length > 1 && parts[parts.length - 1].length === 2
commaIsDecimal(parts) == Len(parts) > 1 /\ Len(parts[Len(parts)]) = 2

\* the separator disambiguation of parseAmount
resolveSeparators(tmp) ==
    IF includes(tmp, <<",">>) /\ includes(tmp, <<".">>)
    THEN removeCommas(tmp)
    ELSE IF includes(tmp, <<",">>)
         THEN LET parts == splitChar(tmp, ",")
              IN  IF commaIsDecimal(parts) THEN join(parts, <<".">>)
                  ELSE removeCommas(tmp)
         ELSE tmp

(* parseFloat: the longest prefix of the text (after leading white space)    *)
(* that is a decimal literal: an optional sign, then digits with an optional *)
(* fraction, or a fraction alone.  The text parseAmount hands over holds     *)
(* only digits, ".", "," and "-", so no exponent or Infinity can occur.      *)
(* The result is [nan, neg, int, frac]: the digits before and after the      *)
(* point.                                                                    *)
parseFloat(text) ==
    LET s0   == trimStart(text)
        sign == IF s0 # << >> /\ Head(s0) \in {"-", "+"} THEN 1 ELSE 0
        neg  == sign = 1 /\ Head(s0) = "-"
        s1   == SubSeq(s0, sign + 1, Len(s0))
        n    == DigitRun(s1)
        s2   == SubSeq(s1, n + 1, Len(s1))
        dot  == s2 # << >> /\ Head(s2) = "."
        m    == IF dot THEN DigitRun(Tail(s2)) ELSE 0
    IN  IF n = 0 /\ m = 0
        THEN [nan |-> TRUE, neg |-> FALSE, int |-> << >>, frac |-> << >>]
        ELSE [nan |-> FALSE, neg |-> neg, int |-> SubSeq(s1, 1, n),
              frac |-> IF dot THEN SubSeq(s2, 2, m + 1) ELSE << >>]

\* whether the digits after the second decimal are at least / more than a half
RestAtLeastHalf(rest) == rest # << >> /\ DigitValue(rest[1]) >= 5
RestOverHalf(rest) ==
    /\ rest # << >>
    /\ \/ DigitValue(rest[1]) > 5
       \/ DigitValue(rest[1]) = 5 /\ \E i \in 2..Len(rest) : rest[i] # "0"

\* The scale factor mistyped: Math.round(num * 10) / 100.
roundHundredthsScale10(num) ==
    LET f1 == SubSeq(num.frac \o <<"0">>, 1, 1)
        t  == DigitsToInt(num.int) * 10 + DigitsToInt(f1)
    IN  IF num.neg THEN -t ELSE t

(* Math.round(num * 100) / 100 in hundredths.  Math.round rounds a half      *)
(* towards +Infinity.  A text whose digits after the second decimal are      *)
(* exactly a half (1.005) is decided in the source by the binary value of    *)
(* the double; the inputs of this model hold no such text.                   *)
roundHundredths(num) ==
    LET f2   == SubSeq(num.frac \o <<"0","0">>, 1, 2)
        rest == SubSeq(num.frac, 3, Len(num.frac))
        t    == DigitsToInt(num.int) * 100 + DigitsToInt(f2)
    IN  IF num.neg
        THEN -(t + IF RestOverHalf(rest) THEN 1 ELSE 0)
        ELSE t + IF RestAtLeastHalf(rest) THEN 1 ELSE 0

parseAmount(s) ==
    IF s = << >> THEN 0
    ELSE LET tmp == trim(keepAmountChars(removeCurrency(s)))
         IN  IF tmp = << >> THEN 0
             ELSE LET num == parseFloat(resolveSeparators(tmp))
                  IN  IF num.nan THEN 0 ELSE roundHundredths(num)

(* String(n) of a number that is a count of hundredths below 1e21 in         *)
(* magnitude: the shortest decimal text, no exponent, no trailing zeros.     *)
NumberToString(h) ==
    LET a    == IF h < 0 THEN -h ELSE h
        sign == IF h < 0 THEN <<"-">> ELSE << >>
        frac == a % 100
    IN  sign \o IntToDigits(a \div 100) \o
        (IF frac = 0 THEN << >>
         ELSE IF frac % 10 = 0 THEN <<".">> \o <<DigitChar(frac \div 10)>>
         ELSE <<".">> \o <<DigitChar(frac \div 10), DigitChar(frac % 10)>>)

(***************************************************************************)
(* Bounded text: every string over an alphabet up to a length              *)
(***************************************************************************)
RECURSIVE StringsOfLen(_, _)
StringsOfLen(A, n) ==
    IF n = 0 THEN {<< >>}
    ELSE {<<c>> \o s : c \in A, s \in StringsOfLen(A, n - 1)}

StringsUpTo(A, n) == UNION {StringsOfLen(A, k) : k \in 0..n}

(***************************************************************************)
(* parseAmount called on bounded text                                      *)
(***************************************************************************)
MaxAmountLen == 4
AmountAlphabet == {"1", "2", "0", ",", ".", "-", "$", " "}
NamedAmounts == {<<"1",",","2","3","4",".","5","6">>, <<"1",".","2","3","4",",","5","6">>, <<"1",",","2","3","4">>, <<"1","2",",","3","4">>,
                 <<"E","T","B"," ","1",",","2","0","0",".","5","0">>, <<"-","1","2",",","3","4">>, <<"1","0","0",".","0","0">>, <<"u","s","d"," ","7">>}
AmountInputs == StringsUpTo(AmountAlphabet, MaxAmountLen) \cup NamedAmounts

\* no parseFile call is in progress
\* the upload form at rest, nothing stored
NoUpload ==
    /\ isProcessing = FALSE
    /\ receiptsBucket = {}
    /\ receiptsTable = << >>
    /\ transactionsTable = << >>
    /\ calls = << >>

NoCall ==
    /\ file = None /\ extractor = "none" /\ table = None /\ err = ""
    /\ NoUpload

InitAmount ==
    /\ pc = "call"
    /\ arg \in AmountInputs
    /\ ret = None
    /\ NoCall

CallParseAmount ==
    /\ pc = "call"
    /\ ret' = Some(parseAmount(arg))
    /\ pc' = "returned"
    /\ UNCHANGED <<file, extractor, table, err, arg, uploadVars>>

NextAmount == CallParseAmount

SpecAmount == InitAmount /\ [][NextAmount]_vars

\* C3: parseAmount resolves the decimal separator: "1,234.56" and "1.234,56"
\* are 1234.56, "1,234" is 1234 and "12,34" is 12.34 (in hundredths).
AmountSeparatorCases ==
    pc = "returned" =>
        /\ arg = <<"1",",","2","3","4",".","5","6">> => ret = Some(123456)
        /\ arg = <<"1",".","2","3","4",",","5","6">> => ret = Some(123456)
        /\ arg = <<"1",",","2","3","4">> => ret = Some(123400)
        /\ arg = <<"1","2",",","3","4">> => ret = Some(1234)

\* C5: parseAmount is idempotent on its own canonical output:
\* parseAmount(String(parseAmount(x))) = parseAmount(x) for every bounded x,
\* negative results and results with one or two fractional digits included.
AmountIdempotent ==
    pc = "returned" => parseAmount(NumberToString(ret[1])) = ret[1]

AmountIdempotentWitness ==
    /\ pc = "returned"
    /\ ret[1] < 0
    /\ ret[1] % 100 # 0
    /\ ret[1] % 10 = 0
    /\ parseAmount(NumberToString(ret[1])) = ret[1]

(***************************************************************************)
(* Field normalizers: parseDateFlexible and monthNameToNumber              *)
(***************************************************************************)
DateSeparators == {"-", "/"}

(* raw.match(/^(\d{lo1,hi1})[-\/](\d{lo2,hi2})[-\/](\d{lo3,hi3})$/): the      *)
(* three captured groups, or None.  A digit group is followed by a character *)
(* that is no digit (or by the end), so it is the whole run of digits.       *)
matchNumericDate(raw, lo1, hi1, lo2, hi2, lo3, hi3) ==
    LET n1 == DigitRun(raw)
        r1 == SubSeq(raw, n1 + 1, Len(raw))
        r2 == IF r1 = << >> THEN << >> ELSE Tail(r1)
        n2 == DigitRun(r2)
        r3 == SubSeq(r2, n2 + 1, Len(r2))
        r4 == IF r3 = << >> THEN << >> ELSE Tail(r3)
        n3 == DigitRun(r4)
    IN  IF /\ n1 \in lo1..hi1
           /\ r1 # << >> /\ Head(r1) \in DateSeparators
           /\ n2 \in lo2..hi2
           /\ r3 # << >> /\ Head(r3) \in DateSeparators
           /\ n3 \in lo3..hi3
           /\ n3 = Len(r4)
        THEN Some(<<SubSeq(raw, 1, n1), SubSeq(r2, 1, n2), r4>>)
        ELSE None

RECURSIVE LetterRun(_)
LetterRun(s) ==
    IF s # << >> /\ Head(s) \in Letters THEN 1 + LetterRun(Tail(s)) ELSE 0

RECURSIVE SpaceRun(_)
SpaceRun(s) ==
    IF s # << >> /\ IsSpace(Head(s)) THEN 1 + SpaceRun(Tail(s)) ELSE 0

\* raw.match(/^(\d{1,2})\s+([A-Za-z]{3,})\s+(\d{2,4})$/)
matchLongDate(raw) ==
    LET n1 == DigitRun(raw)
        r1 == SubSeq(raw, n1 + 1, Len(raw))
        w1 == SpaceRun(r1)
        r2 == SubSeq(r1, w1 + 1, Len(r1))
        n2 == LetterRun(r2)
        r3 == SubSeq(r2, n2 + 1, Len(r2))
        w2 == SpaceRun(r3)
        r4 == SubSeq(r3, w2 + 1, Len(r3))
        n3 == DigitRun(r4)
    IN  IF /\ n1 \in 1..2 /\ w1 >= 1 /\ n2 >= 3 /\ w2 >= 1
           /\ n3 \in 2..4 /\ n3 = Len(r4)
        THEN Some(<<SubSeq(raw, 1, n1), SubSeq(r2, 1, n2), r4>>)
        ELSE None

\* s.padStart(2, "0")
padStart2(s) == IF Len(s) < 2 THEN SubSeq(<<"0","0">>, 1, 2 - Len(s)) \o s ELSE s

\* the keys of the month map in insertion order, and their values
MonthKeys ==
    <<<<"j","a","n">>, <<"j","a","n","u","a","r","y">>, <<"f","e","b">>, <<"f","e","b","r","u","a","r","y">>, <<"m","a","r">>, <<"m","a","r","c","h">>, <<"a","p","r">>,
      <<"a","p","r","i","l">>, <<"m","a","y">>, <<"j","u","n">>, <<"j","u","n","e">>, <<"j","u","l">>, <<"j","u","l","y">>, <<"a","u","g">>, <<"a","u","g","u","s","t">>,
      <<"s","e","p">>, <<"s","e","p","t">>, <<"s","e","p","t","e","m","b","e","r">>, <<"o","c","t">>, <<"o","c","t","o","b","e","r">>, <<"n","o","v">>, <<"n","o","v","e","m","b","e","r">>,
      <<"d","e","c">>, <<"d","e","c","e","m","b","e","r">>>>
MonthValues ==
    <<<<"0","1">>, <<"0","1">>, <<"0","2">>, <<"0","2">>, <<"0","3">>, <<"0","3">>, <<"0","4">>, <<"0","4">>, <<"0","5">>, <<"0","6">>,
      <<"0","6">>, <<"0","7">>, <<"0","7">>, <<"0","8">>, <<"0","8">>, <<"0","9">>, <<"0","9">>, <<"0","9">>, <<"1","0">>, <<"1","0">>,
      <<"1","1">>, <<"1","1">>, <<"1","2">>, <<"1","2">>>>

startsWith(s, prefix) ==
    Len(prefix) <= Len(s) /\ SubSeq(s, 1, Len(prefix)) = prefix

monthNameToNumber(name) ==
    LET low  == toLowerCase(name)
        hits == {k \in 1..Len(MonthKeys) : startsWith(low, MonthKeys[k])}
    IN  IF hits = {} THEN <<"0","1">>
        ELSE MonthValues[CHOOSE k \in hits : \A j \in hits : k <= j]

\* The template with day and month swapped: `${y}-${d}-${m}`.
isoDateDayFirst(y, m, d) == y \o <<"-">> \o padStart2(d) \o <<"-">> \o padStart2(m)

\* `${y}-${m.padStart(2, "0")}-${d.padStart(2, "0")}`
isoDate(y, m, d) == y \o <<"-">> \o padStart2(m) \o <<"-">> \o padStart2(d)

parseDateFlexible(s) ==
    IF s = << >> THEN << >>
    ELSE LET raw  == collapseSpaces(trim(s))
             ymd  == matchNumericDate(raw, 4, 4, 1, 2, 1, 2)
             dmy  == matchNumericDate(raw, 1, 2, 1, 2, 4, 4)
             long == matchLongDate(raw)
         IN  IF ymd # None
             THEN isoDate(ymd[1][1], ymd[1][2], ymd[1][3])
             ELSE IF dmy # None
             THEN isoDate(dmy[1][3], dmy[1][2], dmy[1][1])
             ELSE IF long # None
             THEN LET yRaw == long[1][3]
                      y    == IF Len(yRaw) = 2 THEN <<"2","0">> \o yRaw ELSE yRaw
                  IN  y \o <<"-">> \o monthNameToNumber(long[1][2]) \o <<"-">> \o padStart2(long[1][1])
             ELSE raw

(***************************************************************************)
(* parseDateFlexible called on bounded text                                *)
(***************************************************************************)
DateYears == {<<"2","0","2","4">>, <<"1","9","9","9">>}
DateNumbers == {<<"1">>, <<"0","1">>, <<"7">>, <<"1","2">>, <<"1","3">>, <<"3","1">>, <<"3","2">>, <<"0">>, <<"0","0">>}
DateSepStrings == {<<"-">>, <<"/">>}
DateMonthNames == {<<"J","a","n">>, <<"J","a","n","u","a","r","y">>, <<"M","A","R">>, <<"S","e","p","t">>, <<"d","e","c">>, <<"F","o","o">>}
DateLongYears == {<<"2","0","2","4">>, <<"2","4">>, <<"2","0","2">>}
DateGaps == {<<" ">>, <<" "," ">>}
DateOther == {<< >>, <<" ">>, <<"h","e","l","l","o">>, <<"2","0","2","4","-","1">>, <<" ","2","0","2","4","-","0","1","-","0","5"," ">>, <<"0","1",".","0","2",".","2","0","2","4">>,
              <<"2","0","2","4","-","0","1","-","0","5","x">>, <<"1"," ","J","a"," ","2","0","2","4">>, <<"0","0","1","/","0","2","/","2","0","2","4">>, <<"1","2","/","3","1","/","2","0","2","4">>}

DateInputs ==
    {y \o a \o m \o b \o d :
        y \in DateYears, a \in DateSepStrings, m \in DateNumbers,
        b \in DateSepStrings, d \in DateNumbers}
    \cup {d \o a \o m \o b \o y :
        y \in {<<"2","0","2","4">>}, a \in DateSepStrings, m \in DateNumbers,
        b \in DateSepStrings, d \in DateNumbers}
    \cup {d \o g \o m \o g \o y :
        d \in {<<"1">>, <<"0","1">>, <<"3","1">>, <<"4","5">>}, g \in DateGaps,
        m \in DateMonthNames, y \in DateLongYears}
    \cup DateOther

InitDate ==
    /\ pc = "call"
    /\ arg \in DateInputs
    /\ ret = None
    /\ NoCall

CallParseDateFlexible ==
    /\ pc = "call"
    /\ ret' = Some(parseDateFlexible(arg))
    /\ pc' = "returned"
    /\ UNCHANGED <<file, extractor, table, err, arg, uploadVars>>

NextDate == CallParseDateFlexible

SpecDate == InitDate /\ [][NextDate]_vars

\* the three patterns of the date normalizer as the claim names them:
\* YYYY[-/]M[-/]D, D[-/]M[-/]YYYY, D MonthName YYYY|YY
SupportedDatePattern(s) ==
    LET raw == collapseSpaces(trim(s))
    IN  \/ matchNumericDate(raw, 4, 4, 1, 2, 1, 2) # None
        \/ matchNumericDate(raw, 1, 2, 1, 2, 4, 4) # None
        \/ /\ matchLongDate(raw) # None
           /\ Len(matchLongDate(raw)[1][3]) \in {2, 4}

\* YYYY-MM-DD with month in 01..12 and day in 01..31
CanonicalValidDate(d) ==
    /\ Len(d) = 10
    /\ AllDigits(SubSeq(d, 1, 4))
    /\ d[5] = "-"
    /\ AllDigits(SubSeq(d, 6, 7))
    /\ d[8] = "-"
    /\ AllDigits(SubSeq(d, 9, 10))
    /\ DigitsToInt(SubSeq(d, 6, 7)) \in 1..12
    /\ DigitsToInt(SubSeq(d, 9, 10)) \in 1..31

\* C4: for every text matching one of the three supported patterns,
\* parseDateFlexible returns YYYY-MM-DD with a four-digit year, a zero-padded
\* month in 01..12 and a zero-padded day in 01..31.
DateNormalizedValid ==
    (pc = "returned" /\ SupportedDatePattern(arg)) => CanonicalValidDate(ret[1])

(***************************************************************************)
(* Field normalizers: fixReference                                         *)
(***************************************************************************)
\* The class without the backslash: runs of "-" and "/" only.
RefSeparatorsNoBackslash == {"-", "/"}

\* the character class [-\\/] of fixReference: dash, backslash, slash
RefSeparators == {"-", "\\", "/"}

RECURSIVE SeparatorRun(_)
SeparatorRun(s) ==
    IF s # << >> /\ Head(s) \in RefSeparators THEN 1 + SeparatorRun(Tail(s)) ELSE 0

\* s.replace(/[-\\/]{2,}/g, "-"): each leftmost longest run of two or more
RECURSIVE collapseSeparatorRuns(_)
collapseSeparatorRuns(s) ==
    IF s = << >> THEN << >>
    ELSE IF SeparatorRun(s) >= 2
         THEN <<"-">> \o collapseSeparatorRuns(SubSeq(s, SeparatorRun(s) + 1, Len(s)))
         ELSE <<Head(s)>> \o collapseSeparatorRuns(Tail(s))

fixReference(ref) ==
    IF ref = << >> THEN << >>
    ELSE collapseSeparatorRuns(removeSpaces(ref))

(***************************************************************************)
(* fixReference called on bounded text                                     *)
(***************************************************************************)
MaxRefLen == 4
RefAlphabet == {"A", "1", " ", "-", "/", "\\"}
NamedRefs == {<<"A","B"," ","-"," ","-"," ","1","2","3">>, <<"A","B","-","-","/","/","1","2","3">>, <<"A","\t","-","\\","-","B","1">>, <<"F","T","/","2","0","2","4","/","-","0","0","1">>}
RefInputs == StringsUpTo(RefAlphabet, MaxRefLen) \cup NamedRefs

InitRef ==
    /\ pc = "call"
    /\ arg \in RefInputs
    /\ ret = None
    /\ NoCall

CallFixReference ==
    /\ pc = "call"
    /\ ret' = Some(fixReference(arg))
    /\ pc' = "returned"
    /\ UNCHANGED <<file, extractor, table, err, arg, uploadVars>>

NextRef == CallFixReference

SpecRef == InitRef /\ [][NextRef]_vars

(* The reference operator of the claim, over a class Cls of separator        *)
(* characters: with every white-space character removed, a character that   *)
(* has a neighbour of the class and is of the class itself lies in a run of  *)
(* two or more; the first character of such a run becomes "-", the others    *)
(* vanish, and every other character stays.                                  *)
InSeparatorRun(t, i, Cls) ==
    /\ t[i] \in Cls
    /\ \/ i > 1 /\ t[i - 1] \in Cls
       \/ i < Len(t) /\ t[i + 1] \in Cls

RECURSIVE ConcatAll(_)
ConcatAll(pieces) ==
    IF pieces = << >> THEN << >> ELSE Head(pieces) \o ConcatAll(Tail(pieces))

ReferenceCleanup(s, Cls) ==
    LET t == SelectSeq(s, LAMBDA c : ~IsSpace(c))
    IN  ConcatAll([i \in 1..Len(t) |->
            IF ~InSeparatorRun(t, i, Cls) THEN <<t[i]>>
            ELSE IF i = 1 \/ t[i - 1] \notin Cls THEN <<"-">>
            ELSE << >>])

\* C7 as stated: fixReference equals the reference operator whose runs are
\* drawn from "-" and "/" only, a backslash staying unchanged.
RefCleanupDashSlashOnly ==
    pc = "returned" => ret[1] = ReferenceCleanup(arg, {"-", "/"})

\* C7 as amended: fixReference removes every white-space character and then
\* replaces every maximal run of two or more characters drawn from dash,
\* slash and backslash by a single dash; every other character, a single
\* dash, slash or backslash included, is unchanged; "AB - - 123" is "AB-123".
RefCleanupWithBackslash ==
    pc = "returned" =>
        /\ ret[1] = ReferenceCleanup(arg, {"-", "/", "\\"})
        /\ arg = <<"A","B"," ","-"," ","-"," ","1","2","3">> => ret[1] = <<"A","B","-","1","2","3">>

RefCleanupWitness ==
    /\ pc = "returned"
    /\ arg = <<"A","\t","-","\\","-","B","1">>
    /\ ret[1] = <<"A","-","B","1">>

(***************************************************************************)
(* Validator: validateTransactions                                         *)
(*                                                                         *)
(* A ParsedTransaction is a record [bookDate, valueDate, reference,        *)
(* description, debit, credit, closingBalance].  A message of the report   *)
(* is <<n, kind>>: the record number printed in it and which message it    *)
(* is; the top-level message carries the number 0.                         *)
(***************************************************************************)
\* !text || text.trim() === ""
blank(text) == text = << >> \/ trim(text) = << >>

\* /^\d{4}-\d{2}-\d{2}/.test(text)
isoDatePrefix(text) ==
    /\ Len(text) >= 10
    /\ AllDigits(SubSeq(text, 1, 4))
    /\ text[5] = "-"
    /\ AllDigits(SubSeq(text, 6, 7))
    /\ text[8] = "-"
    /\ AllDigits(SubSeq(text, 9, 10))

\* The zero check with || in place of &&.
eitherAmountZero(t) == t.debit = 0 \/ t.credit = 0

\* transaction.debit === 0 && transaction.credit === 0
bothAmountsZero(t) == t.debit = 0 /\ t.credit = 0

\* the messages the forEach callback pushes for the transaction at `index`
transactionErrors(t, index) ==
    (IF blank(t.bookDate) THEN <<<<index + 1, "Missing book date">>>>
     ELSE IF ~isoDatePrefix(t.bookDate)
          THEN <<<<index + 1, "Invalid book date format">>>>
          ELSE << >>)
    \o (IF blank(t.reference) THEN <<<<index + 1, "Missing reference">>>> ELSE << >>)
    \o (IF blank(t.description) THEN <<<<index + 1, "Missing description">>>> ELSE << >>)
    \o (IF bothAmountsZero(t)
        THEN <<<<index + 1, "Both debit and credit are zero">>>> ELSE << >>)
    \o (IF t.debit < 0 THEN <<<<index + 1, "Debit amount is negative">>>> ELSE << >>)
    \o (IF t.credit < 0 THEN <<<<index + 1, "Credit amount is negative">>>> ELSE << >>)

\* transactions.forEach(...) from `index` on, appending to `errors`
RECURSIVE forEachTransaction(_, _, _)
forEachTransaction(transactions, index, errors) ==
    IF index >= Len(transactions) THEN errors
    ELSE forEachTransaction(transactions, index + 1,
             errors \o transactionErrors(transactions[index + 1], index))

(* The argument is [given, list]: given is FALSE for a missing (null or      *)
(* undefined) list.                                                          *)
validateTransactions(transactions) ==
    IF ~transactions.given \/ Len(transactions.list) = 0
    THEN [valid |-> FALSE, errors |-> <<<<0, "No transactions found in the file">>>>]
    ELSE LET errors == forEachTransaction(transactions.list, 0, << >>)
         IN  [valid |-> Len(errors) = 0, errors |-> errors]

(***************************************************************************)
(* validateTransactions called on bounded lists                            *)
(***************************************************************************)
MaxTransactions == 2
ValidatorBookDates == {<< >>, <<"2","0","2","4","-","0","3","-","0","1">>, <<"0","1","/","0","3","/","2","0","2","4">>}
ValidatorReferences == {<<" ">>, <<"A","B","C","1","2","3","4","5">>}
ValidatorDescriptions == {<< >>, <<"S","h","o","p"," ","p","a","y","m","e","n","t">>}
ValidatorAmounts == {<<0, 0>>, <<0, 15000>>, <<-500, 0>>, <<10000, -1>>}

ValidatorTransactions ==
    {[bookDate |-> b, valueDate |-> None, reference |-> r, description |-> d,
      debit |-> a[1], credit |-> a[2], closingBalance |-> None] :
        b \in ValidatorBookDates, r \in ValidatorReferences,
        d \in ValidatorDescriptions, a \in ValidatorAmounts}

\* the lists of n elements of E
ListsOfLen(E, n) == [1..n -> E]

ListsUpTo(E, n) == UNION {ListsOfLen(E, k) : k \in 0..n}

\* the argument: undefined or null, or a list of up to MaxTransactions records
ValidatorInput(a) ==
    \/ a = [given |-> FALSE, list |-> << >>]
    \/ \E n \in 0..MaxTransactions :
           \E l \in ListsOfLen(ValidatorTransactions, n) :
               a = [given |-> TRUE, list |-> l]

InitValidate ==
    /\ pc = "call"
    /\ ValidatorInput(arg)
    /\ ret = None
    /\ NoCall

CallValidateTransactions ==
    /\ pc = "call"
    /\ ret' = Some(validateTransactions(arg))
    /\ pc' = "returned"
    /\ UNCHANGED <<file, extractor, table, err, arg, uploadVars>>

NextValidate == CallValidateTransactions

SpecValidate == InitValidate /\ [][NextValidate]_vars

\* the rule table of the validator, in the order the rules are listed
ValidatorRules ==
    <<"bookDate", "reference", "description", "notBothZero", "debitNotNegative",
      "creditNotNegative">>

RuleViolated(t, rule) ==
    CASE rule = "bookDate" -> ~(~blank(t.bookDate) /\ isoDatePrefix(t.bookDate))
      [] rule = "reference" -> blank(t.reference)
      [] rule = "description" -> blank(t.description)
      [] rule = "notBothZero" -> t.debit = 0 /\ t.credit = 0
      [] rule = "debitNotNegative" -> t.debit < 0
      [] rule = "creditNotNegative" -> t.credit < 0

\* the rule a message reports
RuleOfMessage(kind) ==
    CASE kind \in {"Missing book date", "Invalid book date format"} -> "bookDate"
      [] kind = "Missing reference" -> "reference"
      [] kind = "Missing description" -> "description"
      [] kind = "Both debit and credit are zero" -> "notBothZero"
      [] kind = "Debit amount is negative" -> "debitNotNegative"
      [] kind = "Credit amount is negative" -> "creditNotNegative"
      [] OTHER -> "topLevel"

\* one entry <<n, rule>> per violated rule of record n, records in order
ExpectedFindings(list) ==
    ConcatAll([n \in 1..Len(list) |->
        LET violated == SelectSeq(ValidatorRules, LAMBDA r : RuleViolated(list[n], r))
        IN  [k \in 1..Len(violated) |-> <<n, violated[k]>>]])

ReportedFindings(report) ==
    [k \in 1..Len(report.errors) |->
        <<report.errors[k][1], RuleOfMessage(report.errors[k][2])>>]

SoundRecord(t) == \A k \in 1..Len(ValidatorRules) : ~RuleViolated(t, ValidatorRules[k])

\* C6: validateTransactions equals the rule table: a missing or empty list
\* gives valid = FALSE with exactly one top-level error; otherwise the errors
\* are, in record order with 1-based record numbers, one entry per violated
\* rule, and valid holds iff there are none; a record with debit 0 and
\* credit 0 is flagged, an otherwise sound one with debit 0 and credit
\* 150.00 is not.
ValidatorEqualsRuleTable ==
    pc = "returned" =>
        LET report == ret[1]
        IN  /\ (~arg.given \/ arg.list = << >>) =>
                /\ ~report.valid
                /\ Len(report.errors) = 1
                /\ report.errors[1][1] = 0
                /\ RuleOfMessage(report.errors[1][2]) = "topLevel"
            /\ (arg.given /\ arg.list # << >>) =>
                /\ ReportedFindings(report) = ExpectedFindings(arg.list)
                /\ report.valid <=> report.errors = << >>
                /\ \A n \in 1..Len(arg.list) :
                    /\ (arg.list[n].debit = 0 /\ arg.list[n].credit = 0) =>
                           \E k \in 1..Len(report.errors) :
                               report.errors[k] = <<n, "Both debit and credit are zero">>
                    /\ (arg.list[n].debit = 0 /\ arg.list[n].credit = 15000
                        /\ ~blank(arg.list[n].reference)
                        /\ ~blank(arg.list[n].description)
                        /\ isoDatePrefix(arg.list[n].bookDate)) =>
                           \A k \in 1..Len(report.errors) : report.errors[k][1] # n

ValidatorWitness ==
    /\ pc = "returned"
    /\ Len(arg.list) = 2
    /\ arg.list[1].debit = 0 /\ arg.list[1].credit = 0
    /\ SoundRecord(arg.list[2]) /\ arg.list[2].debit = 0 /\ arg.list[2].credit = 15000
    /\ ~ret[1].valid
    /\ \E k \in 1..Len(ret[1].errors) :
           ret[1].errors[k] = <<1, "Both debit and credit are zero">>
    /\ \A k \in 1..Len(ret[1].errors) : ret[1].errors[k][1] = 1

(***************************************************************************)
(* Header resolver and transaction assembler: findColumnIndex and          *)
(* parseTableData.  Column indices are those of the source: 0-based, -1    *)
(* for a role that no header resolves.                                     *)
(***************************************************************************)
Min(a, b) == IF a < b THEN a ELSE b
Max(a, b) == IF a > b THEN a ELSE b

\* row[idx] || "", also for an index outside the row (undefined)
cellAt(row, idx) == IF idx >= 0 /\ idx < Len(row) THEN row[idx + 1] ELSE << >>

\* headers.findIndex((h) => h.includes(name))
findIndexIncluding(headers, name) ==
    LET hits == {i \in 1..Len(headers) : includes(headers[i], name)}
    IN  IF hits = {} THEN -1
        ELSE (CHOOSE i \in hits : \A j \in hits : i <= j) - 1

\* The loops the other way round: the first header holding any of the names.
findColumnIndexHeaderFirst(headers, possibleNames) ==
    LET hits == {i \in 1..Len(headers) :
                    \E k \in 1..Len(possibleNames) :
                        includes(headers[i], toLowerCase(possibleNames[k]))}
    IN  IF hits = {} THEN -1
        ELSE (CHOOSE i \in hits : \A j \in hits : i <= j) - 1

RECURSIVE findColumnIndex(_, _)
findColumnIndex(headers, possibleNames) ==
    IF possibleNames = << >> THEN -1
    ELSE LET idx == findIndexIncluding(headers, toLowerCase(Head(possibleNames)))
         IN  IF idx # -1 THEN idx ELSE findColumnIndex(headers, Tail(possibleNames))

BookDateNames == <<<<"b","o","o","k"," ","d","a","t","e">>, <<"d","a","t","e">>>>
ValueDateNames == <<<<"v","a","l","u","e"," ","d","a","t","e">>>>
ReferenceNames == <<<<"r","e","f","e","r","e","n","c","e">>, <<"r","e","f">>>>
DescriptionNames == <<<<"d","e","s","c","r","i","p","t","i","o","n">>, <<"d","e","t","a","i","l","s">>, <<"n","a","r","r","a","t","i","o","n">>>>
DebitNames == <<<<"d","e","b","i","t">>, <<"d","r">>, <<"w","i","t","h","d","r","a","w","a","l">>>>
CreditNames == <<<<"c","r","e","d","i","t">>, <<"c","r">>, <<"d","e","p","o","s","i","t">>>>
BalanceNames == <<<<"b","a","l","a","n","c","e">>>>

\* headers.map((h) => (h || "").toLowerCase().trim())
normalizeHeaders(headers) ==
    [i \in 1..Len(headers) |-> trim(toLowerCase(headers[i]))]

\* An index of -1 read from the end of the row, as at() would.
getWrapping(row, idx) ==
    IF idx >= 0 /\ idx < Len(row) THEN trim(row[idx + 1])
    ELSE IF idx = -1 /\ Len(row) > 0 THEN trim(row[Len(row)])
    ELSE << >>

\* const get = (idx) => idx >= 0 && idx < row.length ? (row[idx] || "").trim() : ""
get(row, idx) == IF idx >= 0 /\ idx < Len(row) THEN trim(row[idx + 1]) ELSE << >>

\* The rescan run as soon as one of the two columns gives 0.
assembleRowRescanEither(row, normalizedHeaders) ==
    LET bookDateIndex    == findColumnIndex(normalizedHeaders, BookDateNames)
        valueDateIndex   == findColumnIndex(normalizedHeaders, ValueDateNames)
        referenceIndex   == findColumnIndex(normalizedHeaders, ReferenceNames)
        descriptionIndex == findColumnIndex(normalizedHeaders, DescriptionNames)
        debitIndex       == findColumnIndex(normalizedHeaders, DebitNames)
        creditIndex      == findColumnIndex(normalizedHeaders, CreditNames)
        balanceIndex     == findColumnIndex(normalizedHeaders, BalanceNames)
        valueDateRaw     == IF valueDateIndex # -1 THEN get(row, valueDateIndex) ELSE << >>
        debit            == parseAmount(get(row, debitIndex))
        credit           == parseAmount(get(row, creditIndex))
        rescan           == debit = 0 \/ credit = 0
        joined           == join(row, <<" ">>)
    IN  [bookDate       |-> parseDateFlexible(get(row, bookDateIndex)),
         valueDate      |-> IF valueDateRaw # << >>
                            THEN Some(parseDateFlexible(valueDateRaw)) ELSE None,
         reference      |-> fixReference(get(row, referenceIndex)),
         description    |-> get(row, descriptionIndex),
         debit          |-> IF rescan /\ includes(toLowerCase(joined), <<"d","e","b","i","t">>)
                            THEN parseAmount(joined) ELSE debit,
         credit         |-> IF rescan /\ includes(toLowerCase(joined), <<"c","r","e","d","i","t">>)
                            THEN parseAmount(joined) ELSE credit,
         closingBalance |-> IF balanceIndex # -1
                            THEN Some(parseAmount(get(row, balanceIndex))) ELSE None]

\* the ParsedTransaction the loop body of parseTableData pushes for one row
assembleRow(row, normalizedHeaders) ==
    LET bookDateIndex    == findColumnIndex(normalizedHeaders, BookDateNames)
        valueDateIndex   == findColumnIndex(normalizedHeaders, ValueDateNames)
        referenceIndex   == findColumnIndex(normalizedHeaders, ReferenceNames)
        descriptionIndex == findColumnIndex(normalizedHeaders, DescriptionNames)
        debitIndex       == findColumnIndex(normalizedHeaders, DebitNames)
        creditIndex      == findColumnIndex(normalizedHeaders, CreditNames)
        balanceIndex     == findColumnIndex(normalizedHeaders, BalanceNames)
        valueDateRaw     == IF valueDateIndex # -1 THEN get(row, valueDateIndex) ELSE << >>
        debit            == parseAmount(get(row, debitIndex))
        credit           == parseAmount(get(row, creditIndex))
        rescan           == debit = 0 /\ credit = 0
        joined           == join(row, <<" ">>)
    IN  [bookDate       |-> parseDateFlexible(get(row, bookDateIndex)),
         valueDate      |-> IF valueDateRaw # << >>
                            THEN Some(parseDateFlexible(valueDateRaw)) ELSE None,
         reference      |-> fixReference(get(row, referenceIndex)),
         description    |-> get(row, descriptionIndex),
         debit          |-> IF rescan /\ includes(toLowerCase(joined), <<"d","e","b","i","t">>)
                            THEN parseAmount(joined) ELSE debit,
         credit         |-> IF rescan /\ includes(toLowerCase(joined), <<"c","r","e","d","i","t">>)
                            THEN parseAmount(joined) ELSE credit,
         closingBalance |-> IF balanceIndex # -1
                            THEN Some(parseAmount(get(row, balanceIndex))) ELSE None]

\* The rows whose debit and credit are both 0 given no transaction.
parseTableDataSkippingZero(tableData) ==
    LET normalizedHeaders == normalizeHeaders(tableData.headers)
        all == [i \in 1..Len(tableData.rows) |->
                   assembleRow(tableData.rows[i], normalizedHeaders)]
    IN  [headers      |-> tableData.headers,
         rows         |-> tableData.rows,
         transactions |-> SelectSeq(all, LAMBDA t : t.debit # 0 \/ t.credit # 0)]

parseTableData(tableData) ==
    LET normalizedHeaders == normalizeHeaders(tableData.headers)
    IN  [headers      |-> tableData.headers,
         rows         |-> tableData.rows,
         transactions |-> [i \in 1..Len(tableData.rows) |->
                              assembleRow(tableData.rows[i], normalizedHeaders)]]

(***************************************************************************)
(* findColumnIndex called on bounded header lists, for each role           *)
(***************************************************************************)
MaxHeaders == 3
HeaderSamples ==
    {<<"w","i","t","h","d","r","a","w","a","l">>, <<"d","e","b","i","t">>, <<"v","a","l","u","e"," ","d","a","t","e">>, <<"b","o","o","k"," ","d","a","t","e">>, <<"m","e","m","o">>, <<"c","r","/","d","r">>}
RoleNames ==
    {BookDateNames, ValueDateNames, ReferenceNames, DescriptionNames,
     DebitNames, CreditNames, BalanceNames}

InitHeaders ==
    /\ pc = "call"
    /\ \E n \in 0..MaxHeaders : \E hs \in ListsOfLen(HeaderSamples, n) :
           \E names \in RoleNames :
               arg = [headers |-> hs, possibleNames |-> names]
    /\ ret = None
    /\ NoCall

CallFindColumnIndex ==
    /\ pc = "call"
    /\ ret' = Some(findColumnIndex(arg.headers, arg.possibleNames))
    /\ pc' = "returned"
    /\ UNCHANGED <<file, extractor, table, err, arg, uploadVars>>

NextHeaders == CallFindColumnIndex

SpecHeaders == InitHeaders /\ [][NextHeaders]_vars

\* header i holds candidate k
HeaderHolds(i, k) == includes(arg.headers[i], arg.possibleNames[k])
\* the least member of a non-empty set of numbers
Least(S) == CHOOSE i \in S : \A j \in S : i <= j

\* C12 as stated: the result is -1 exactly when no header holds a candidate,
\* and otherwise the index of the first header that holds any candidate,
\* also when a later header holds an earlier-listed candidate.
FirstHeaderWithAnyCandidate ==
    pc = "returned" =>
        LET hits == {i \in 1..Len(arg.headers) :
                        \E k \in 1..Len(arg.possibleNames) : HeaderHolds(i, k)}
        IN  ret[1] = IF hits = {} THEN -1 ELSE Least(hits) - 1

\* C12, amended: the result is -1 exactly when no header holds a candidate,
\* and otherwise the index of the first header that holds the earliest-listed
\* candidate held by any header.
FirstHeaderOfEarliestCandidate ==
    pc = "returned" =>
        LET found == {k \in 1..Len(arg.possibleNames) :
                         \E i \in 1..Len(arg.headers) : HeaderHolds(i, k)}
        IN  ret[1] = IF found = {} THEN -1
                     ELSE Least({i \in 1..Len(arg.headers) :
                                    HeaderHolds(i, Least(found))}) - 1

FirstHeaderOfEarliestCandidateWitness ==
    /\ pc = "returned"
    /\ arg = [headers |-> <<<<"w","i","t","h","d","r","a","w","a","l">>, <<"d","e","b","i","t">>>>, possibleNames |-> DebitNames]
    /\ ret = Some(1)

(***************************************************************************)
(* Plain-text columnar extractor: extractTableFromText                     *)
(***************************************************************************)
\* line.split(/\s{2,}|\t/): a run of two or more white-space characters is
\* tried first at each place, then a single tab
RECURSIVE splitColumns(_, _)
splitColumns(s, piece) ==
    IF s = << >> THEN <<piece>>
    ELSE IF SpaceRun(s) >= 2
         THEN <<piece>> \o splitColumns(SubSeq(s, SpaceRun(s) + 1, Len(s)), << >>)
         ELSE IF Head(s) = "\t"
              THEN <<piece>> \o splitColumns(Tail(s), << >>)
              ELSE splitColumns(Tail(s), piece \o <<Head(s)>>)

trimAll(cells) == [i \in 1..Len(cells) |-> trim(cells[i])]

extractTableFromText(text) ==
    LET lines == SelectSeq(trimAll(splitChar(text, "\n")), LAMBDA l : l # << >>)
    IN  IF Len(lines) = 0 THEN [headers |-> << >>, rows |-> << >>]
        ELSE [headers |-> trimAll(splitColumns(lines[1], << >>)),
              rows    |-> [i \in 1..(Len(lines) - 1) |->
                              trimAll(splitColumns(lines[i + 1], << >>))]]

(***************************************************************************)
(* Table-document extractor: the regular expressions of parseWord          *)
(***************************************************************************)
\* \b at offset p of s (between s[p] and s[p + 1])
wordBoundary(s, p) ==
    (p > 0 /\ IsWordChar(s[p])) # (p < Len(s) /\ IsWordChar(s[p + 1]))

\* \d{1,2}\s+[A-Z]{3}\s+\d{2,4} matching the whole of sub
matchUpperMonthDate(sub) ==
    LET n1 == DigitRun(sub)
        r1 == SubSeq(sub, n1 + 1, Len(sub))
        w1 == SpaceRun(r1)
        r2 == SubSeq(r1, w1 + 1, Len(r1))
        r3 == SubSeq(r2, 4, Len(r2))
        w2 == SpaceRun(r3)
        r4 == SubSeq(r3, w2 + 1, Len(r3))
        n3 == DigitRun(r4)
    IN  /\ n1 \in 1..2 /\ w1 >= 1
        /\ Len(r2) >= 3 /\ \A k \in 1..3 : r2[k] \in Upper
        /\ w2 >= 1 /\ n3 \in 2..4 /\ n3 = Len(r4)

\* one of the three alternatives of dateRegex matching the whole of sub
dateAlternative(sub) ==
    \/ matchNumericDate(sub, 1, 2, 1, 2, 2, 4) # None
    \/ matchUpperMonthDate(sub)
    \/ matchNumericDate(sub, 4, 4, 1, 2, 1, 2) # None

(* dateRegex.test(s) for                                                     *)
(* /\b(\d{1,2}[-/]\d{1,2}[-/]\d{2,4}|\d{1,2}\s+[A-Z]{3}\s+\d{2,4}            *)
(*    |\d{4}[-/]\d{1,2}[-/]\d{1,2})\b/: some part of s between two word      *)
(* boundaries matches an alternative.                                        *)
dateRegexTest(s) ==
    \E i \in 0..Len(s) : \E j \in (i + 1)..Len(s) :
        /\ s[i + 1] \in Digits /\ s[j] \in Digits
        /\ wordBoundary(s, i) /\ wordBoundary(s, j)
        /\ dateAlternative(SubSeq(s, i + 1, j))

\* (,\d{3})*(\.\d{2})? matching the whole of r
RECURSIVE amountTail(_)
amountTail(r) ==
    IF r = << >> THEN TRUE
    ELSE \/ /\ Head(r) = "," /\ Len(r) >= 4 /\ AllDigits(SubSeq(r, 2, 4))
            /\ amountTail(SubSeq(r, 5, Len(r)))
         \/ Head(r) = "." /\ Len(r) = 3 /\ AllDigits(SubSeq(r, 2, 3))

\* amountRegex.test(s) for /\b\d{1,3}(,\d{3})*(\.\d{2})?\b/
amountRegexTest(s) ==
    \E i \in 0..Len(s) : \E j \in (i + 1)..Len(s) :
        /\ s[i + 1] \in Digits /\ s[j] \in Digits
        /\ wordBoundary(s, i) /\ wordBoundary(s, j)
        /\ LET sub == SubSeq(s, i + 1, j)
               n   == DigitRun(sub)
           IN  n \in 1..3 /\ amountTail(SubSeq(sub, n + 1, Len(sub)))

BoilerplatePhrases ==
    <<<<"o","p","e","n","i","n","g"," ","b","a","l","a","n","c","e">>, <<"c","l","o","s","i","n","g"," ","b","a","l","a","n","c","e">>, <<"p","e","r","i","o","d"," ","s","t","a","r","t">>, <<"p","e","r","i","o","d"," ","e","n","d">>>>

\* /(opening balance|closing balance|period start|period end|page \d+)/i.test(text)
boilerplateTest(text) ==
    LET low == toLowerCase(text)
    IN  \/ \E k \in 1..Len(BoilerplatePhrases) : includes(low, BoilerplatePhrases[k])
        \/ \E d \in Digits : includes(low, <<"p","a","g","e"," ">> \o <<d>>)

(***************************************************************************)
(* Table-document extractor: header scoring and the table loop             *)
(***************************************************************************)
headerKeywords ==
    <<<<"b","o","o","k"," ","d","a","t","e">>, <<"r","e","f","e","r","e","n","c","e">>, <<"d","e","s","c","r","i","p","t","i","o","n">>, <<"v","a","l","u","e"," ","d","a","t","e">>, <<"d","e","b","i","t">>,
      <<"c","r","e","d","i","t">>, <<"b","a","l","a","n","c","e">>>>

HeaderScanLimit == 10

\* the score of one row: how many keywords its joined lowercased text includes
rowScore(row) ==
    LET rowText == toLowerCase(join(row, <<" ">>))
    IN  Cardinality({k \in 1..Len(headerKeywords) : includes(rowText, headerKeywords[k])})

\* the header search of one table from row i on: [tableBestScore, headerIndex]
RECURSIVE findHeaderRow(_, _, _, _)
\* The comparison of the scores not strict: the last row of the best score.
findHeaderRowLatest(rows, i, tableBestScore, headerIndex) ==
    IF i >= Min(HeaderScanLimit, Len(rows))
    THEN [tableBestScore |-> tableBestScore, headerIndex |-> headerIndex]
    ELSE IF rowScore(rows[i + 1]) >= tableBestScore
         THEN findHeaderRow(rows, i + 1, rowScore(rows[i + 1]), i)
         ELSE findHeaderRow(rows, i + 1, tableBestScore, headerIndex)

findHeaderRow(rows, i, tableBestScore, headerIndex) ==
    IF i >= Min(HeaderScanLimit, Len(rows))
    THEN [tableBestScore |-> tableBestScore, headerIndex |-> headerIndex]
    ELSE IF rowScore(rows[i + 1]) > tableBestScore
         THEN findHeaderRow(rows, i + 1, rowScore(rows[i + 1]), i)
         ELSE findHeaderRow(rows, i + 1, tableBestScore, headerIndex)

\* r.some((c) => c && c.trim())
someNonBlank(r) == \E k \in 1..Len(r) : r[k] # << >> /\ trim(r[k]) # << >>

\* for (const tbl of tblEls): acc is [chosenHeaders, mergedRows, globalBestScore]
RECURSIVE tableLoop(_, _)
\* The comparison of the table scores not strict: the last table of the best score.
tableLoopLatestBest(tables, acc) ==
    IF tables = << >> THEN acc
    ELSE LET rows == Head(tables)
             h    == findHeaderRow(rows, 0, 0, -1)
         IN  IF Len(rows) = 0 \/ h.headerIndex = -1
             THEN tableLoop(Tail(tables), acc)
             ELSE LET headerRow == trimAll(rows[h.headerIndex + 1])
                      better    == \/ Len(acc.chosenHeaders) = 0
                                   \/ h.tableBestScore >= acc.globalBestScore
                      dataRows  == SubSeq(rows, h.headerIndex + 2, Len(rows))
                  IN  tableLoop(Tail(tables),
                          [chosenHeaders   |-> IF better THEN headerRow
                                               ELSE acc.chosenHeaders,
                           globalBestScore |-> IF better THEN h.tableBestScore
                                               ELSE acc.globalBestScore,
                           mergedRows      |-> acc.mergedRows
                                               \o SelectSeq(dataRows, someNonBlank)])

tableLoop(tables, acc) ==
    IF tables = << >> THEN acc
    ELSE LET rows == Head(tables)
             h    == findHeaderRow(rows, 0, 0, -1)
         IN  IF Len(rows) = 0 \/ h.headerIndex = -1
             THEN tableLoop(Tail(tables), acc)
             ELSE LET headerRow == trimAll(rows[h.headerIndex + 1])
                      better    == \/ Len(acc.chosenHeaders) = 0
                                   \/ h.tableBestScore > acc.globalBestScore
                      dataRows  == SubSeq(rows, h.headerIndex + 2, Len(rows))
                  IN  tableLoop(Tail(tables),
                          [chosenHeaders   |-> IF better THEN headerRow
                                               ELSE acc.chosenHeaders,
                           globalBestScore |-> IF better THEN h.tableBestScore
                                               ELSE acc.globalBestScore,
                           mergedRows      |-> acc.mergedRows
                                               \o SelectSeq(dataRows, someNonBlank)])

scanTables(tables) ==
    tableLoop(tables, [chosenHeaders |-> << >>, mergedRows |-> << >>,
                       globalBestScore |-> 0])

RECURSIVE MaxRowLength(_)
MaxRowLength(rows) ==
    IF rows = << >> THEN 0 ELSE Max(Len(Head(rows)), MaxRowLength(Tail(rows)))

\* Array.from({ length: maxCols }, (_, i) => `Column ${i + 1}`)
genericHeaders(mergedRows) ==
    [i \in 1..MaxRowLength(mergedRows) |-> <<"C","o","l","u","m","n"," ">> \o IntToDigits(i)]

\* chosenHeaders after the fallback and the white-space normalisation
resolveHeaders(acc) ==
    LET chosen == IF Len(acc.chosenHeaders) = 0 THEN genericHeaders(acc.mergedRows)
                  ELSE acc.chosenHeaders
    IN  [i \in 1..Len(chosen) |-> trim(collapseSpaces(chosen[i]))]

\* mergedRows padded (and cut) to headerLen cells, each trimmed
padRows(chosenHeaders, mergedRows) ==
    LET headerLen == Max(Len(chosenHeaders), MaxRowLength(mergedRows))
    IN  [r \in 1..Len(mergedRows) |->
            [i \in 1..headerLen |-> trim(cellAt(mergedRows[r], i - 1))]]

(***************************************************************************)
(* Table-document extractor: continuation merging                          *)
(***************************************************************************)
\* block[idx] = value; an index past the end lengthens the row, the cells in
\* between being holes, which join() and the later reads take as empty
setCell(row, idx, value) ==
    [i \in 1..Max(Len(row), idx + 1) |->
        IF i = idx + 1 THEN value ELSE cellAt(row, i - 1)]

\* descriptionIndex >= 0 ? descriptionIndex : 2
DefaultDescriptionIndex == 2
descIndexOf(descriptionIndex) ==
    IF descriptionIndex >= 0 THEN descriptionIndex ELSE DefaultDescriptionIndex

\* The continuation text put in place of the description, not appended to it.
appendDescriptionReplacing(block, row, descIndex) ==
    LET descParts == SelectSeq(row, LAMBDA c : c # << >> /\ trim(c) # << >>)
    IN  IF Len(descParts) > 0 THEN setCell(block, descIndex, join(descParts, <<" ">>))
        ELSE block

\* the description append: block[descIndex] = (old + " " + parts.join(" ")).trim()
appendDescription(block, row, descIndex) ==
    LET descParts == SelectSeq(row, LAMBDA c : c # << >> /\ trim(c) # << >>)
    IN  IF Len(descParts) > 0
        THEN setCell(block, descIndex,
                 trim(cellAt(block, descIndex) \o <<" ">> \o join(descParts, <<" ">>)))
        ELSE block

\* if (!block[idx] && amountRegex.test(nextRow[idx] || "")) block[idx] = nextRow[idx]
adoptAmount(block, nextRow, idx) ==
    IF cellAt(block, idx) = << >> /\ amountRegexTest(cellAt(nextRow, idx))
    THEN setCell(block, idx, cellAt(nextRow, idx))
    ELSE block

\* the body of the look-ahead loop for one continuation row
absorb(block, nextRow, cols) ==
    adoptAmount(
        adoptAmount(
            adoptAmount(appendDescription(block, nextRow, descIndexOf(cols.description)),
                        nextRow, cols.debit),
            nextRow, cols.credit),
        nextRow, cols.balance)

hasDate(row) == dateRegexTest(cellAt(row, 0))

\* while (i + 1 < paddedRows.length): [block, i] when the loop ends
RECURSIVE lookAhead(_, _, _, _)
lookAhead(paddedRows, i, block, cols) ==
    IF i + 1 < Len(paddedRows) /\ ~hasDate(paddedRows[i + 2])
    THEN lookAhead(paddedRows, i + 1, absorb(block, paddedRows[i + 2], cols), cols)
    ELSE [block |-> block, i |-> i]

\* for (let i = 0; i < paddedRows.length; i++) from i on
RECURSIVE groupLoop(_, _, _, _)
\* A dateless row met while there is no logical row yet kept as one of its own.
groupLoopKeepingLeading(paddedRows, i, groupedRows, cols) ==
    IF i >= Len(paddedRows) THEN groupedRows
    ELSE LET row == paddedRows[i + 1]
         IN  IF hasDate(row)
             THEN LET la == lookAhead(paddedRows, i, row, cols)
                  IN  groupLoop(paddedRows, la.i + 1, Append(groupedRows, la.block), cols)
             ELSE groupLoop(paddedRows, i + 1, Append(groupedRows, row), cols)

groupLoop(paddedRows, i, groupedRows, cols) ==
    IF i >= Len(paddedRows) THEN groupedRows
    ELSE LET row == paddedRows[i + 1]
         IN  IF hasDate(row)
             THEN LET la == lookAhead(paddedRows, i, row, cols)
                  IN  groupLoop(paddedRows, la.i + 1, Append(groupedRows, la.block), cols)
             ELSE IF Len(groupedRows) > 0
                  THEN groupLoop(paddedRows, i + 1,
                           [groupedRows EXCEPT ![Len(groupedRows)] =
                               appendDescription(@, row, descIndexOf(cols.description))],
                           cols)
                  ELSE groupLoop(paddedRows, i + 1, groupedRows, cols)

\* the column indices parseWord resolves from the lowercased headers
wordColumns(chosenHeaders) ==
    LET normalizedHeaderLower == normalizeHeaders(chosenHeaders)
    IN  [description |-> findColumnIndex(normalizedHeaderLower, DescriptionNames),
         debit       |-> findColumnIndex(normalizedHeaderLower, DebitNames),
         credit      |-> findColumnIndex(normalizedHeaderLower, CreditNames),
         balance     |-> findColumnIndex(normalizedHeaderLower, BalanceNames)]

groupRows(chosenHeaders, paddedRows) ==
    groupLoop(paddedRows, 0, << >>, wordColumns(chosenHeaders))

\* groupedRows.filter(...): boilerplate rows and blank rows are dropped
keepRow(r) == ~boilerplateTest(toLowerCase(join(r, <<" ">>))) /\ someNonBlank(r)

filterRows(groupedRows) == SelectSeq(groupedRows, keepRow)

(* parseWord on the content of a file.  The content is [kind, ...]; a        *)
(* "docx" content holds hasDocumentXml and tables, each table the rows of    *)
(* cell texts that getCellText returns.  JSZip.loadAsync rejects a content   *)
(* that is no zip archive; a spreadsheet archive holds no word/document.xml. *)
(* The result is [error, table].                                             *)
Failure(message) == [error |-> message, table |-> None]
Success(parsed) == [error |-> "", table |-> Some(parsed)]

parseWord(content) ==
    IF content.kind \notin {"docx", "xlsx"}
    THEN Failure("Can't find end of central directory")
    ELSE IF content.kind = "xlsx" \/ ~content.hasDocumentXml
    THEN Failure("word/document.xml not found in .docx")
    ELSE IF Len(content.tables) = 0
    THEN Failure("No tables found in Word document.")
    ELSE LET acc == scanTables(content.tables)
         IN  IF Len(acc.mergedRows) = 0
             THEN Failure("No transactions found across tables")
             ELSE LET chosenHeaders == resolveHeaders(acc)
                      paddedRows    == padRows(chosenHeaders, acc.mergedRows)
                      finalRows     == filterRows(groupRows(chosenHeaders, paddedRows))
                  IN  Success(parseTableData([headers |-> chosenHeaders,
                                              rows    |-> finalRows]))

(***************************************************************************)
(* Spreadsheet extractor and the PDF path                                  *)
(***************************************************************************)
(* parseExcel on the content of a file: an "xlsx" content holds sheet, the   *)
(* rows sheet_to_json returns for the first sheet, each a list of cell       *)
(* texts.  XLSX.read is taken to reject a content that is no workbook.       *)
\* A sheet holding only its header row taken for an empty one.
parseExcelNeedsData(content) ==
    IF content.kind # "xlsx" THEN Failure("File is not a spreadsheet")
    ELSE LET jsonData == content.sheet
         IN  IF Len(jsonData) <= 1 THEN Failure("No data found in Excel file")
             ELSE Success(parseTableData(
                      [headers |-> trimAll(jsonData[1]),
                       rows    |-> [i \in 1..(Len(jsonData) - 1) |->
                                       trimAll(jsonData[i + 1])]]))

parseExcel(content) ==
    IF content.kind # "xlsx" THEN Failure("File is not a spreadsheet")
    ELSE LET jsonData == content.sheet
         IN  IF Len(jsonData) = 0 THEN Failure("No data found in Excel file")
             ELSE Success(parseTableData(
                      [headers |-> trimAll(jsonData[1]),
                       rows    |-> [i \in 1..(Len(jsonData) - 1) |->
                                       trimAll(jsonData[i + 1])]]))

\* pdfParse: the stub of the source, which throws whatever the buffer holds
pdfParse(content) ==
    [threw   |-> TRUE,
     message |-> "PDF parsing is not available in the browser",
     text    |-> << >>]

parsePDF(content) ==
    LET data == pdfParse(content)
    IN  IF data.threw THEN Failure(data.message)
        ELSE Success(parseTableData(extractTableFromText(data.text)))

(***************************************************************************)
(* Format dispatcher: parseFile                                            *)
(***************************************************************************)
PdfType == "application/pdf"
WordType == "application/vnd.openxmlformats-officedocument.wordprocessingml.document"
XlsType == "application/vnd.ms-excel"
XlsxType == "application/vnd.openxmlformats-officedocument.spreadsheetml.sheet"
UnsupportedMessage == "Unsupported file type. Please upload PDF, Word (.docx), or Excel files."

\* The dispatcher as it would be if the MIME type were matched before any extension.
selectExtractorTypeFirst(fileType, fileName) ==
    IF fileType = PdfType THEN "pdf"
    ELSE IF fileType = WordType THEN "word"
    ELSE IF fileType \in {XlsType, XlsxType} THEN "excel"
    ELSE IF endsWith(fileName, <<".","p","d","f">>) THEN "pdf"
    ELSE IF endsWith(fileName, <<".","d","o","c","x">>) THEN "word"
    ELSE IF endsWith(fileName, <<".","x","l","s">>) \/ endsWith(fileName, <<".","x","l","s","x">>) THEN "excel"
    ELSE "none"

\* The last branch taken without a test: whatever is left goes to parseExcel.
selectExtractorDefaultExcel(fileType, fileName) ==
    IF fileType = PdfType \/ endsWith(fileName, <<".","p","d","f">>) THEN "pdf"
    ELSE IF fileType = WordType \/ endsWith(fileName, <<".","d","o","c","x">>) THEN "word"
    ELSE "excel"

\* the if / else-if chain of parseFile; fileName is already lowercased
selectExtractor(fileType, fileName) ==
    IF fileType = PdfType \/ endsWith(fileName, <<".","p","d","f">>) THEN "pdf"
    ELSE IF fileType = WordType \/ endsWith(fileName, <<".","d","o","c","x">>) THEN "word"
    ELSE IF \/ fileType = XlsType
            \/ fileType = XlsxType
            \/ endsWith(fileName, <<".","x","l","s">>)
            \/ endsWith(fileName, <<".","x","l","s","x">>)
         THEN "excel"
    ELSE "none"

(***************************************************************************)
(* parseFile as a state machine: the dispatcher runs first and delegates   *)
(* to one extractor, which completes after its awaits                      *)
(***************************************************************************)
ParseFile ==
    /\ pc = "idle"
    /\ LET selected == selectExtractor(file.type, toLowerCase(file.name))
       IN  IF selected = "none"
           THEN /\ pc' = "failed"
                /\ err' = UnsupportedMessage
                /\ UNCHANGED extractor
           ELSE /\ pc' = selected
                /\ extractor' = selected
                /\ UNCHANGED err
    /\ UNCHANGED <<file, table, arg, ret, uploadVars>>

\* the outcome of an extractor: the promise of parseFile resolves or rejects
Settle(result) ==
    /\ IF result.error # ""
       THEN pc' = "failed" /\ err' = result.error /\ UNCHANGED table
       ELSE pc' = "done" /\ table' = result.table /\ UNCHANGED err
    /\ UNCHANGED <<file, extractor, arg, ret, uploadVars>>

ParsePDF == pc = "pdf" /\ Settle(parsePDF(file.content))

ParseWord == pc = "word" /\ Settle(parseWord(file.content))

ParseExcel == pc = "excel" /\ Settle(parseExcel(file.content))

Next == ParseFile \/ ParsePDF \/ ParseWord \/ ParseExcel

(***************************************************************************)
(* The files parseFile is called with                                      *)
(***************************************************************************)
MaxRows == 3

FileTypes == {PdfType, WordType, XlsType, XlsxType, "text/plain", ""}
FileNames == {<<"s",".","p","d","f">>, <<"S",".","P","D","F">>, <<"s",".","d","o","c","x">>, <<"s",".","x","l","s">>, <<"s",".","x","l","s","x">>, <<"s",".","t","x","t">>, <<"p","d","f">>}

Docx(tables) == [kind |-> "docx", hasDocumentXml |-> TRUE, tables |-> tables]

\* three-column statements
NarrowHeader == <<<<"B","o","o","k"," ","D","a","t","e">>, <<"R","e","f","e","r","e","n","c","e">>, <<"D","e","s","c","r","i","p","t","i","o","n">>>>
MemoHeader == <<<<"B","o","o","k"," ","D","a","t","e">>, <<"R","e","f","e","r","e","n","c","e">>, <<"M","e","m","o">>>>
NarrowRows ==
    {<<<<"0","1","/","0","2","/","2","0","2","4">>, <<"R","E","F","1">>, <<"P","a","y","m","e","n","t">>>>,
     <<<<>>, <<>>, <<"t","o"," ","v","e","n","d","o","r">>>>,
     <<<<"0","2","/","0","2","/","2","0","2","4">>, <<"R","E","F","2">>, <<"S","a","l","a","r","y">>>>,
     <<<<>>, <<"R","E","F","9">>, <<>>>>,
     <<<<>>, <<>>, <<"C","l","o","s","i","n","g"," ","B","a","l","a","n","c","e">>>>,
     <<<<"0","3","/","0","2","/","2","0","2","4">>, <<"R","E","F","3">>, <<"s","e","e"," ","p","a","g","e">>>>,
     <<<<>>, <<>>, <<"2">>>>}
MemoRows ==
    {<<<<"0","1","/","0","2","/","2","0","2","4">>, <<"R","E","F","1">>, <<"P","a","y","m","e","n","t">>>>,
     <<<<>>, <<>>, <<"t","o"," ","v","e","n","d","o","r">>>>,
     <<<<"2"," ","F","E","B"," ","2","0","2","4">>, <<"R","E","F","2">>, <<>>>>}

\* six-column statements
WideHeader ==
    <<<<"B","o","o","k"," ","D","a","t","e">>, <<"R","e","f","e","r","e","n","c","e">>, <<"D","e","s","c","r","i","p","t","i","o","n">>, <<"D","e","b","i","t">>, <<"C","r","e","d","i","t">>, <<"B","a","l","a","n","c","e">>>>
WideRows ==
    {<<<<"0","1","/","0","3","/","2","0","2","4">>, <<"A","B","C","1","2","3","4","5">>, <<"S","h","o","p"," ","p","a","y","m","e","n","t">>, <<"1","0","0",".","0","0">>, <<>>, <<"9","0","0",".","0","0">>>>,
     <<<<>>, <<>>, <<"b","r","a","n","c","h"," ","1","2">>, <<>>, <<"2","5","0",".","0","0">>, <<>>>>,
     <<<<>>, <<>>, <<>>, <<"1","5","0","0">>, <<>>, <<>>>>,
     <<<<"0","2","/","0","3","/","2","0","2","4">>, <<"X","Y"," ","-"," ","-"," ","7","7">>, <<"R","e","f","u","n","d">>, <<>>, <<>>, <<>>>>,
     <<<<>>, <<>>, <<>>, <<"7","5",".","0","0">>, <<>>, <<"1",",","0","0","0",".","0","0">>>>,
     <<<<>>, <<>>, <<"C","l","o","s","i","n","g"," ","B","a","l","a","n","c","e">>, <<>>, <<>>, <<"9","0","0",".","0","0">>>>}

\* a statement with a debit column and neither credit nor balance
DebitOnlyHeader == <<<<"D","a","t","e">>, <<"D","e","t","a","i","l","s">>, <<"D","e","b","i","t">>>>
DebitOnlyRows ==
    {<<<<"0","1","/","0","2","/","2","0","2","4">>, <<"P","a","y","m","e","n","t">>, <<>>>>,
     <<<<>>, <<"t","o"," ","v","e","n","d","o","r">>, <<"4","0",".","0","0">>>>,
     <<<<"0","2","/","0","2","/","2","0","2","4">>, <<"F","e","e">>, <<"5",".","0","0">>>>}

\* a statement with no description column, its debit column third
NoDescriptionHeader == <<<<"D","a","t","e">>, <<"R","e","f">>, <<"D","e","b","i","t">>, <<"C","r","e","d","i","t">>>>
NoDescriptionRows ==
    {<<<<"0","1","/","0","2","/","2","0","2","4">>, <<"R","1">>, <<"1","0","0",".","0","0">>, <<>>>>,
     <<<<>>, <<>>, <<"t","o"," ","v","e","n","d","o","r">>, <<>>>>,
     <<<<>>, <<>>, <<>>, <<"7",".","0","0">>>>}

Statement(header, rowSet) ==
    {Docx(<<<<header>> \o rows>>) : rows \in ListsUpTo(rowSet, MaxRows)}

CoverTable == <<<<<<"S","t","a","t","e","m","e","n","t">>, <<"A","c","c","o","u","n","t"," ","1">>>>, <<<<"P","e","r","i","o","d">>, <<"2","0","2","4">>>>>>
ShortTable ==
    <<<<<<"D","a","t","e">>, <<"D","e","b","i","t">>>>, <<<<"0","5","/","0","3","/","2","0","2","4">>, <<"1","0",".","0","0">>>>, <<<<>>, <<>>>>>>
ShopTable ==
    <<WideHeader,
      <<<<"0","1","/","0","3","/","2","0","2","4">>, <<"A","B","C","1","2","3","4","5">>, <<"S","h","o","p"," ","p","a","y","m","e","n","t">>, <<"1","0","0",".","0","0">>, <<>>, <<"9","0","0",".","0","0">>>>>>

InvoiceTable ==
    <<WideHeader,
      <<<<"0","4","/","0","3","/","2","0","2","4">>, <<"I","N","V","0","0","0","4","4">>, <<"I","n","v","o","i","c","e">>, <<"1","2",".","0","0">>, <<>>, <<>>>>,
      <<<<>>, <<>>, <<"s","e","e"," ","p","a","g","e">>, <<>>, <<>>, <<>>>>>>

\* a date with a month name in mixed case, and a cell that holds a date among
\* other words
MonthNameTable ==
    <<NarrowHeader,
      <<<<"0","1","/","0","2","/","2","0","2","4">>, <<"R","E","F","1">>, <<"P","a","y","m","e","n","t">>>>,
      <<<<"1"," ","J","a","n"," ","2","0","2","4">>, <<"R","E","F","2">>, <<"F","e","e">>>>>>
EmbeddedDateTable ==
    <<NarrowHeader,
      <<<<"R","e","f"," ","0","2","/","0","2","/","2","0","2","4">>, <<"R","E","F","3">>, <<"N","o","t","e">>>>>>

\* tables whose header row is the eleventh and the tenth row
NoiseRow == <<<<"S","t","a","t","e","m","e","n","t">>, <<"A","c","c","o","u","n","t"," ","1">>>>
LateHeaderTable ==
    [i \in 1..10 |-> NoiseRow]
    \o <<WideHeader,
          <<<<"0","9","/","0","3","/","2","0","2","4">>, <<"L","A","T","E","0","0","0","1">>, <<"L","a","t","e"," ","r","o","w">>, <<"1",".","0","0">>, <<>>, <<"2",".","0","0">>>>>>
TenthRowHeaderTable ==
    [i \in 1..9 |-> NoiseRow]
    \o <<NarrowHeader, <<<<"0","1","/","0","2","/","2","0","2","4">>, <<"R","E","F","1">>, <<"P","a","y","m","e","n","t">>>>>>

\* two rows of the same score in one table, a header in capitals, and two
\* tables whose headers score the same
OtherHeader == <<<<"V","a","l","u","e"," ","D","a","t","e">>, <<"D","e","b","i","t">>, <<"C","r","e","d","i","t">>>>
TwoHeaderRowsTable ==
    <<NoiseRow, NarrowHeader, OtherHeader, <<<<"0","1","/","0","2","/","2","0","2","4">>, <<"R","E","F","1">>, <<"P","a","y","m","e","n","t">>>>>>
CapitalsTable ==
    <<<<<<"B","O","O","K"," ","D","A","T","E"," ">>, <<"R","E","F","E","R","E","N","C","E">>, <<"M","e","m","o">>>>, <<<<"0","1","/","0","2","/","2","0","2","4">>, <<"R","E","F","1">>, <<"P","a","y","m","e","n","t">>>>>>
OtherTable ==
    <<OtherHeader, <<<<"0","2","/","0","2","/","2","0","2","4">>, <<"5",".","0","0">>, <<>>>>, <<<<>>, <<" ">>, <<>>>>>>

\* a statement whose amount columns are named Withdrawal and Deposit
DepositHeader ==
    <<<<"D","a","t","e">>, <<"R","e","f">>, <<"D","e","s","c","r","i","p","t","i","o","n">>, <<"W","i","t","h","d","r","a","w","a","l">>, <<"D","e","p","o","s","i","t">>, <<"B","a","l","a","n","c","e">>>>
DepositTable ==
    <<DepositHeader,
      <<<<"0","1","/","0","2","/","2","0","2","4">>, <<"R","1">>, <<"R","e","n","t"," ","2">>, <<>>, <<"5","0",".","0","0">>, <<"1",",","0","0","0",".","0","0">>>>>>

\* a date whose year has two digits
ShortYearTable ==
    <<NarrowHeader,
      <<<<"0","1","/","0","2","/","2","4">>, <<"R","E","F","1">>, <<"P","a","y","m","e","n","t">>>>,
      <<<<"2"," ","F","E","B"," ","2","4">>, <<"R","E","F","2">>, <<"F","e","e">>>>>>

\* a statement of two columns whose amount stands in a continuation row
TwoColumnTable ==
    <<<<<<"D","a","t","e">>, <<"D","e","b","i","t">>>>, <<<<"0","5","/","0","3","/","2","0","2","4">>, <<>>>>, <<<<>>, <<"1","0",".","0","0">>>>>>

OtherDocuments ==
    {Docx(<< >>),
     Docx(<<TwoColumnTable>>),
     Docx(<<ShortYearTable>>),
     Docx(<<DepositTable>>),
     Docx(<<LateHeaderTable>>),
     Docx(<<LateHeaderTable, ShopTable>>),
     Docx(<<TenthRowHeaderTable>>),
     Docx(<<TwoHeaderRowsTable>>),
     Docx(<<CapitalsTable>>),
     Docx(<<TwoHeaderRowsTable, OtherTable>>),
     Docx(<<OtherTable, CoverTable, TwoHeaderRowsTable>>),
     Docx(<<MonthNameTable>>),
     Docx(<<EmbeddedDateTable>>),
     Docx(<<CoverTable>>),
     Docx(<<CoverTable, ShopTable>>),
     Docx(<<ShortTable, ShopTable>>),
     Docx(<<ShopTable, ShortTable>>),
     Docx(<<InvoiceTable>>),
     [kind |-> "docx", hasDocumentXml |-> FALSE, tables |-> << >>]}

WordDocuments ==
    Statement(NarrowHeader, NarrowRows) \cup Statement(MemoHeader, MemoRows)
    \cup Statement(WideHeader, WideRows)
    \cup Statement(DebitOnlyHeader, DebitOnlyRows)
    \cup Statement(NoDescriptionHeader, NoDescriptionRows)
    \cup OtherDocuments

\* the rows sheet_to_json gives for a first sheet: a blank row is kept, a
\* cell keeps the white space around its text
SheetRows ==
    MemoRows \cup {<<<<>>, <<>>, <<>>>>, <<<<" ","0","3","/","0","2","/","2","0","2","4">>, <<"R","E","F","3"," ">>, <<" ","F","e","e"," ">>>>}
PaddedHeaderSheet ==
    <<<<<<" ","B","o","o","k"," ","D","a","t","e"," ">>, <<"R","e","f","e","r","e","n","c","e"," ">>, <<" ","D","e","s","c","r","i","p","t","i","o","n">>>>,
      <<<<"0","1","/","0","2","/","2","0","2","4">>, <<"R","E","F","1">>, <<"P","a","y","m","e","n","t">>>>>>

\* a sheet whose memo column names the side of the entry
FallbackHeader == <<<<"M","e","m","o">>, <<"D","e","b","i","t">>, <<"C","r","e","d","i","t">>>>
FallbackRows ==
    {<<<<"d","e","b","i","t"," ","n","o","t","e"," ","1","2",".","5","0">>, <<>>, <<>>>>,
     <<<<"C","r","e","d","i","t"," ","o","f"," ","7">>, <<>>, <<>>>>,
     <<<<"D","E","B","I","T"," ","a","n","d"," ","c","r","e","d","i","t"," ","3">>, <<"0",".","0","0">>, <<"0">>>>,
     <<<<"n","o","t","e"," ","4">>, <<>>, <<>>>>,
     <<<<"c","r","e","d","i","t"," ","n","o","t","e">>, <<"5",".","0","0">>, <<>>>>,
     <<<<"d","e","b","i","t"," ","2">>, <<>>, <<"8",".","0","0">>>>}

Workbooks ==
    {[kind |-> "xlsx", sheet |-> sheet] :
        sheet \in {<< >>, PaddedHeaderSheet}
                  \cup {<<NarrowHeader>> \o rows :
                           rows \in ListsUpTo(SheetRows, MaxRows - 1)}
                  \cup {<<FallbackHeader>> \o rows :
                           rows \in ListsUpTo(FallbackRows, MaxRows - 1)}}

PdfTexts ==
    {<<>>, <<"\n"," ","\n">>,
     <<"B","o","o","k"," ","D","a","t","e"," "," ","R","e","f","e","r","e","n","c","e"," "," ","D","e","s","c","r","i","p","t","i","o","n","\n","0","1","/","0","2","/","2","0","2","4"," "," ","R","E","F","1"," "," ","P","a","y","m","e","n","t","\n","\t","t","o"," ","v","e","n","d","o","r">>,
     <<"D","a","t","e","\t","D","e","b","i","t","\n","0","5","/","0","3","/","2","0","2","4"," "," "," ","1","0",".","0","0","\n">>}
PdfDocuments == {[kind |-> "pdf", text |-> t] : t \in PdfTexts}

SampleContents ==
    {Docx(<<ShopTable>>),
     [kind |-> "xlsx", sheet |-> <<NarrowHeader>>],
     [kind |-> "pdf", text |-> <<"D","a","t","e","\t","D","e","b","i","t","\n","0","5","/","0","3","/","2","0","2","4"," "," "," ","1","0",".","0","0","\n">>],
     [kind |-> "other"]}

Files ==
    {[type |-> t, name |-> n, content |-> c] :
        t \in FileTypes, n \in FileNames, c \in SampleContents}
    \cup {[type |-> WordType, name |-> <<"s",".","d","o","c","x">>, content |-> c] : c \in WordDocuments}
    \cup {[type |-> XlsxType, name |-> <<"s",".","x","l","s","x">>, content |-> c] : c \in Workbooks}
    \cup {[type |-> PdfType, name |-> <<"s",".","p","d","f">>, content |-> c] : c \in PdfDocuments}

Init ==
    /\ pc = "idle"
    /\ file \in Files
    /\ extractor = "none"
    /\ table = None
    /\ err = ""
    /\ arg = None
    /\ ret = None
    /\ NoUpload

Spec == Init /\ [][Next]_vars

(***************************************************************************)
(* Properties of the table-document path                                   *)
(***************************************************************************)
\* the intermediate values of parseWord for the file in hand
wordScan == scanTables(file.content.tables)
wordHeaders == resolveHeaders(wordScan)
wordPadded == padRows(wordHeaders, wordScan.mergedRows)
\* groupedRows: what the grouping loop leaves, before the boilerplate filter
wordGrouped == groupRows(wordHeaders, wordPadded)

\* the block-start rows of a padded row set, and the k-th of them
BlockStarts(padded) == {i \in 1..Len(padded) : hasDate(padded[i])}
NthBlockStart(padded, k) ==
    CHOOSE i \in BlockStarts(padded) :
        Cardinality({j \in BlockStarts(padded) : j < i}) = k - 1
\* the last physical row of the k-th block
BlockEnd(padded, k) ==
    IF k < Cardinality(BlockStarts(padded))
    THEN NthBlockStart(padded, k + 1) - 1
    ELSE Len(padded)

\* the description of the k-th block: its own description cell followed by
\* the non-blank cells of its continuation rows, in order, joined by spaces
ExpectedDescription(padded, k, d) ==
    LET first == NthBlockStart(padded, k)
        last  == BlockEnd(padded, k)
        words == <<cellAt(padded[first], d)>>
                 \o ConcatAll([r \in 1..(last - first) |->
                        SelectSeq(padded[first + r], LAMBDA c : c # << >>)])
    IN  join(SelectSeq(words, LAMBDA w : w # << >>), <<" ">>)

\* the text of a row set as it reads: its non-blank cells in order
FlowingText(padded) ==
    join(SelectSeq(ConcatAll(padded), LAMBDA c : c # << >>), <<" ">>)

\* the padded rows hold no boilerplate text: none in the text of a row, none
\* in the rows read on, none in a description read with its continuation
NoBoilerplateText(padded, d) ==
    /\ \A i \in 1..Len(padded) : ~boilerplateTest(join(padded[i], <<" ">>))
    /\ ~boilerplateTest(FlowingText(padded))
    /\ \A k \in 1..Cardinality(BlockStarts(padded)) :
           ~boilerplateTest(ExpectedDescription(padded, k, d))

PaymentToVendorDocument ==
    Docx(<<<<NarrowHeader,
             <<<<"0","1","/","0","2","/","2","0","2","4">>, <<"R","E","F","1">>, <<"P","a","y","m","e","n","t">>>>,
             <<<<>>, <<>>, <<"t","o"," ","v","e","n","d","o","r">>>>,
             <<<<"0","2","/","0","2","/","2","0","2","4">>, <<"R","E","F","2">>, <<"S","a","l","a","r","y">>>>>>>>)

ShopPaymentDocument == Docx(<<ShopTable>>)

\* C2: end to end, the table-document whose one table holds the six-column
\* header row and the single data row of the shop payment yields exactly one
\* transaction: bookDate 2024-03-01, reference ABC12345, description
\* Shop payment, debit 100.00, credit 0, closingBalance 900.00.
ShopPaymentEndToEnd ==
    (extractor = "word" /\ pc # "word" /\ file.content = ShopPaymentDocument) =>
        /\ pc = "done"
        /\ table # None
        /\ table[1].transactions =
               <<[bookDate       |-> <<"2","0","2","4","-","0","3","-","0","1">>,
                  valueDate      |-> None,
                  reference      |-> <<"A","B","C","1","2","3","4","5">>,
                  description    |-> <<"S","h","o","p"," ","p","a","y","m","e","n","t">>,
                  debit          |-> 10000,
                  credit         |-> 0,
                  closingBalance |-> Some(90000)]>>

ShopPaymentWitness ==
    /\ pc = "done"
    /\ file.content = ShopPaymentDocument
    /\ Len(table[1].transactions) = 1
    /\ table[1].transactions[1].bookDate = <<"2","0","2","4","-","0","3","-","0","1">>
    /\ table[1].transactions[1].debit = 10000

(***************************************************************************)
(* Properties of the dispatcher                                            *)
(***************************************************************************)
FormatRank == [pdf |-> 1, word |-> 2, excel |-> 3]
FormatTypes == [pdf |-> {PdfType}, word |-> {WordType}, excel |-> {XlsType, XlsxType}]
FormatExtensions ==
    [pdf |-> {<<".","p","d","f">>}, word |-> {<<".","d","o","c","x">>}, excel |-> {<<".","x","l","s">>, <<".","x","l","s","x">>}]
Formats == {"pdf", "word", "excel"}

TypeMatches(f, fmt) == f.type \in FormatTypes[fmt]
ExtensionMatches(f, fmt) ==
    \E e \in FormatExtensions[fmt] : endsWith(toLowerCase(f.name), e)

\* C8: when neither the MIME type nor the filename extension matches PDF,
\* table-document or spreadsheet, parseFile fails with the unsupported-format
\* error, invokes no extractor and returns no table.
UnsupportedFormatFails ==
    (pc # "idle" /\ \A fmt \in Formats : ~TypeMatches(file, fmt) /\ ~ExtensionMatches(file, fmt)) =>
        /\ pc = "failed"
        /\ err = UnsupportedMessage
        /\ extractor = "none"
        /\ table = None

UnsupportedFormatWitness ==
    /\ pc = "failed"
    /\ file.type = "text/plain"
    /\ file.name = <<"s",".","t","x","t">>
    /\ err = UnsupportedMessage
    /\ extractor = "none"

\* C9 as stated: the MIME type is matched first and the extension second: a
\* supported MIME type selects its own extractor whatever the extension, and
\* the extension decides only when the MIME type matches no format.
MimeTypeDecidesFirst ==
    pc # "idle" =>
        /\ \A fmt \in Formats : TypeMatches(file, fmt) => extractor = fmt
        /\ (\A fmt \in Formats : ~TypeMatches(file, fmt)) =>
               \A fmt \in Formats : ExtensionMatches(file, fmt) => extractor = fmt

\* C9 as amended: parseFile selects exactly one extractor, the first of PDF,
\* table-document, spreadsheet (in this order) that the MIME type or the
\* lowercased filename's extension matches; so a supported MIME type selects
\* its own extractor unless the extension names a format earlier in that
\* order (the MIME type of a .docx document with a filename ending in .pdf is
\* routed to the PDF extractor), and none is selected when nothing matches.
FirstMatchingFormatSelected ==
    pc # "idle" =>
        /\ extractor \in Formats \cup {"none"}
        /\ extractor = "none" <=>
               \A fmt \in Formats : ~TypeMatches(file, fmt) /\ ~ExtensionMatches(file, fmt)
        /\ extractor \in Formats =>
               /\ TypeMatches(file, extractor) \/ ExtensionMatches(file, extractor)
               /\ \A fmt \in Formats :
                      FormatRank[fmt] < FormatRank[extractor] =>
                          ~TypeMatches(file, fmt) /\ ~ExtensionMatches(file, fmt)
               /\ pc \in {extractor, "done", "failed"}

FirstMatchingFormatWitness ==
    /\ file.type = WordType
    /\ file.name = <<"s",".","p","d","f">>
    /\ extractor = "pdf"

(***************************************************************************)
(* Properties of the PDF path                                              *)
(***************************************************************************)
HasNonEmptyLine(text) ==
    \E k \in 1..Len(splitChar(text, "\n")) : trim(splitChar(text, "\n")[k]) # << >>

\* the first non-empty line of a text and the non-empty lines after it
NonEmptyLines(text) ==
    SelectSeq(trimAll(splitChar(text, "\n")), LAMBDA l : l # << >>)

\* C10: for an input routed to the PDF path whose text has at least one
\* non-empty line, parseFile completes and returns the table of the plain-text
\* fallback: the headers are the first non-empty line split on runs of two
\* or more white-space characters or a tab, every later non-empty line is one
\* row split the same way.
PdfFallbackReturnsTable ==
    (/\ extractor = "pdf" /\ pc # "pdf"
     /\ file.content.kind = "pdf" /\ HasNonEmptyLine(file.content.text)) =>
        /\ pc = "done"
        /\ table # None
        /\ table[1].headers = trimAll(splitColumns(NonEmptyLines(file.content.text)[1], << >>))
        /\ Len(table[1].rows) = Len(NonEmptyLines(file.content.text)) - 1
        /\ \A i \in 1..Len(table[1].rows) :
               table[1].rows[i] =
                   trimAll(splitColumns(NonEmptyLines(file.content.text)[i + 1], << >>))


(***************************************************************************)
(* Properties of the three extractors together, and of the spreadsheet one *)
(***************************************************************************)
\* C11: whichever extractor parseFile selects, the grid passes through the
\* continuation merger before the assembler: in the table returned, no
\* dateless row follows a dated row as a row and transaction of its own.
EveryFormatMergesContinuations ==
    pc = "done" =>
        /\ Len(table[1].transactions) = Len(table[1].rows)
        /\ \A k \in 2..Len(table[1].rows) :
               hasDate(table[1].rows[k - 1]) => hasDate(table[1].rows[k])

EmptySheetMessage == "No data found in Excel file"

\* C14: parseExcel fails with the empty-sheet error exactly when the first
\* sheet has zero rows; otherwise the headers are row 0, trimmed, and every
\* later row, in sheet order and none skipped, is a data row of the table
\* returned, so a sheet of a header row alone returns zero transactions and
\* no error.
SheetRowsAllKept ==
    (extractor = "excel" /\ pc \in {"done", "failed"} /\ file.content.kind = "xlsx") =>
        LET sheet == file.content.sheet
        IN  /\ (pc = "failed") = (Len(sheet) = 0)
            /\ pc = "failed" => err = EmptySheetMessage /\ table = None
            /\ pc = "done" =>
                   /\ err = ""
                   /\ table[1].headers = trimAll(sheet[1])
                   /\ Len(table[1].rows) = Len(sheet) - 1
                   /\ Len(table[1].transactions) = Len(sheet) - 1
                   /\ \A i \in 1..(Len(sheet) - 1) :
                          /\ Len(table[1].rows[i]) = Len(sheet[i + 1])
                          /\ \A c \in 1..Len(sheet[i + 1]) :
                                 table[1].rows[i][c] = trim(sheet[i + 1][c])

\* a header-only sheet returned with no transaction, and a sheet whose blank
\* row is a data row between two others
SheetRowsAllKeptWitness ==
    /\ pc = "done" /\ extractor = "excel"
    /\ \/ /\ file.content.sheet = <<NarrowHeader>>
          /\ table[1].transactions = << >>
       \/ /\ Len(file.content.sheet) = 3
          /\ file.content.sheet[2] = <<<<>>, <<>>, <<>>>>
          /\ table[1].rows[1] = <<<<>>, <<>>, <<>>>>
          /\ table[1].rows[2] = <<<<"0","3","/","0","2","/","2","0","2","4">>, <<"R","E","F","3">>, <<"F","e","e">>>>

(***************************************************************************)
(* Properties of unresolved columns                                        *)
(***************************************************************************)
\* the roles the assembler resolves on the headers of the table returned
tableColumns == wordColumns(table[1].headers)

\* the errors the extractors raise on the structure of a file
StructuralErrors ==
    {"Can't find end of central directory", "word/document.xml not found in .docx",
     "No tables found in Word document.", "No transactions found across tables",
     "File is not a spreadsheet", EmptySheetMessage,
     "PDF parsing is not available in the browser"}

\* C13: an unresolved debit, credit or balance column (index -1) is always
\* empty and never raises: every row is assembled with debit 0 and credit 0
\* (unless the whole-row fallback applies) and closingBalance absent, the
\* merger adopts nothing for the role and writes to no cell for it, and
\* closingBalance is present exactly when the balance column is resolved.
UnresolvedColumnsAreEmpty ==
    /\ (pc = "failed" /\ extractor # "none") => err \in StructuralErrors
    /\ pc = "done" =>
           LET columns == tableColumns
           IN  \A k \in 1..Len(table[1].transactions) :
                   LET t      == table[1].transactions[k]
                       joined == toLowerCase(join(table[1].rows[k], <<" ">>))
                   IN  /\ columns.debit = -1 =>
                              (t.debit = 0 \/ includes(joined, <<"d","e","b","i","t">>))
                       /\ columns.credit = -1 =>
                              (t.credit = 0 \/ includes(joined, <<"c","r","e","d","i","t">>))
                       /\ (t.closingBalance = None) = (columns.balance = -1)
    /\ (pc = "done" /\ extractor = "word") =>
           LET cols     == wordColumns(wordHeaders)
               resolved == {descIndexOf(cols.description), cols.debit, cols.credit,
                            cols.balance} \ {-1}
               padded   == wordPadded
               grouped  == wordGrouped
           IN  \A k \in 1..Len(grouped) :
                   /\ \/ Len(grouped[k]) = Len(padded[1])
                      \/ descIndexOf(cols.description) >= Len(padded[1])
                   /\ \A c \in 0..(Len(padded[1]) - 1) :
                          c \notin resolved =>
                              cellAt(grouped[k], c)
                                  = cellAt(padded[NthBlockStart(padded, k)], c)

\* a statement with a debit column only: the continuation row's debit is
\* adopted, credit stays 0 and there is no closing balance
UnresolvedColumnsWitness ==
    /\ pc = "done" /\ extractor = "word"
    /\ table[1].headers = DebitOnlyHeader
    /\ tableColumns.credit = -1 /\ tableColumns.balance = -1
    /\ Len(file.content.tables[1]) = 3
    /\ Len(table[1].transactions) = 1
    /\ table[1].transactions[1].debit = 4000
    /\ table[1].transactions[1].credit = 0
    /\ table[1].transactions[1].closingBalance = None

(***************************************************************************)
(* Properties of header detection and of the table loop                    *)
(***************************************************************************)
\* the rows of a table that are scored, as positions 1..
ScoredRows(rows) == 1..Min(HeaderScanLimit, Len(rows))

\* no scored row of the table scores above 0
Headerless(rows) == \A i \in ScoredRows(rows) : rowScore(rows[i]) = 0

\* the tables of the file in hand, when parseWord came to read them
wordTables == file.content.tables
WordTablesRead ==
    /\ extractor = "word" /\ pc \in {"done", "failed"}
    /\ file.content.kind = "docx" /\ file.content.hasDocumentXml

\* C15: a missing header row is not fatal: if no table yields a header, a
\* document that has non-blank table rows is returned as a table whose
\* headers are "Column 1".."Column N", N the width of the widest row.
MissingHeaderSynthesizesLabels ==
    (/\ WordTablesRead
     /\ \A t \in 1..Len(wordTables) : Headerless(wordTables[t])
     /\ \E t \in 1..Len(wordTables) : \E i \in 1..Len(wordTables[t]) :
            someNonBlank(wordTables[t][i])) =>
        /\ pc = "done"
        /\ Len(table[1].headers) >= 1
        /\ \A i \in 1..Len(table[1].headers) :
               table[1].headers[i] = <<"C","o","l","u","m","n"," ">> \o IntToDigits(i)
        /\ \A t \in 1..Len(wordTables) : \A i \in 1..Len(wordTables[t]) :
               Len(wordTables[t][i]) <= Len(table[1].headers)

(***************************************************************************)
(* Properties of the block-start test                                      *)
(***************************************************************************)
\* D Mon YYYY or D Mon YY: one or two digits, a month of three letters, a
\* year of four or two digits, white space between them, the whole of c
MonthNameDate(c) ==
    LET n1 == DigitRun(c)
        r1 == SubSeq(c, n1 + 1, Len(c))
        w1 == SpaceRun(r1)
        r2 == SubSeq(r1, w1 + 1, Len(r1))
        r3 == SubSeq(r2, 4, Len(r2))
        w2 == SpaceRun(r3)
        r4 == SubSeq(r3, w2 + 1, Len(r3))
    IN  /\ n1 \in 1..2 /\ w1 >= 1
        /\ Len(r2) >= 3 /\ \A k \in 1..3 : r2[k] \in Letters
        /\ w2 >= 1 /\ Len(r4) \in {2, 4} /\ AllDigits(r4)

\* the cell is, as a whole, a date of one of the patterns of the merger
IsDateCell(c) ==
    \/ matchNumericDate(c, 1, 2, 1, 2, 2, 4) # None
    \/ matchNumericDate(c, 4, 4, 1, 2, 1, 2) # None
    \/ MonthNameDate(c)

\* C16: a padded row is a block start if and only if its first cell matches
\* one of the date patterns, so that there is one logical row per row whose
\* first cell is a date; a row whose first cell is "1 Jan 2024" is a block
\* start, a row whose first cell is not a date as a whole is not.
BlockStartIffDateCell ==
    (WordTablesRead /\ pc = "done") =>
        /\ \A i \in 1..Len(wordPadded) :
               hasDate(wordPadded[i]) = IsDateCell(cellAt(wordPadded[i], 0))
        /\ Len(wordGrouped)
               = Cardinality({i \in 1..Len(wordPadded) :
                                 IsDateCell(cellAt(wordPadded[i], 0))})

(***************************************************************************)
(* Properties of amount adoption                                           *)
(***************************************************************************)
\* the continuation rows of the k-th block whose cell idx is a numeric amount
AmountRows(padded, k, idx) ==
    {i \in (NthBlockStart(padded, k) + 1)..BlockEnd(padded, k) :
        amountRegexTest(cellAt(padded[i], idx))}

\* the value of column idx of the k-th block after merging: its own when it
\* has one, else that of the first continuation row holding an amount there
ExpectedAmount(padded, k, idx) ==
    LET own == cellAt(padded[NthBlockStart(padded, k)], idx)
    IN  IF own # << >> THEN own
        ELSE IF AmountRows(padded, k, idx) = {} THEN << >>
        ELSE cellAt(padded[Least(AmountRows(padded, k, idx))], idx)

\* C17: amount adoption never overwrites: in each of the debit, credit and
\* balance columns a logical row holds the block-start row's own value when
\* that is non-empty, and otherwise the value of the first absorbed
\* continuation row whose cell there matches the amount pattern (empty if
\* none), in every header layout, also where the description column is one
\* of these columns.
AdoptionNeverOverwrites ==
    (WordTablesRead /\ pc = "done") =>
        LET cols == wordColumns(wordHeaders)
        IN  \A k \in 1..Len(wordGrouped) :
                \A idx \in {cols.debit, cols.credit, cols.balance} \ {-1} :
                    cellAt(wordGrouped[k], idx) = ExpectedAmount(wordPadded, k, idx)

(***************************************************************************)
(* Properties of the rows met before the first block start                 *)
(***************************************************************************)
\* the padded rows begin with a non-blank row that is no block start
LeadingNoise ==
    /\ WordTablesRead /\ pc = "done"
    /\ ~hasDate(wordPadded[1]) /\ someNonBlank(wordPadded[1])

\* C18 as stated: a non-block-start row met before any block start is merged
\* into the description of a logical row: its non-blank cells end up there,
\* and it is neither discarded nor a logical row of its own.
LeadingRowsMerged ==
    LeadingNoise =>
        LET d == descIndexOf(wordColumns(wordHeaders).description)
        IN  /\ Len(wordGrouped) = Cardinality(BlockStarts(wordPadded))
            /\ \E k \in 1..Len(wordGrouped) :
                   \A c \in 1..Len(wordPadded[1]) :
                       includes(cellAt(wordGrouped[k], d), wordPadded[1][c])

\* C18, amended: a non-block-start row met before any block start is
\* discarded: there is one logical row per block start, each described by
\* its own description and its own continuation rows only, so the leading
\* row is no logical row and its cells are in none.
LeadingRowsDiscarded ==
    LeadingNoise =>
        LET cols    == wordColumns(wordHeaders)
            d       == descIndexOf(cols.description)
            padded  == wordPadded
            grouped == wordGrouped
        IN  /\ Len(grouped) = Cardinality(BlockStarts(padded))
            /\ Len(table[1].rows) <= Len(grouped)
            /\ \A k \in 1..Len(grouped) :
                   /\ hasDate(grouped[k])
                   /\ cellAt(grouped[k], d) = ExpectedDescription(padded, k, d)
                   /\ \A c \in 0..(Len(padded[1]) - 1) :
                          c \notin {d, cols.debit, cols.credit, cols.balance} =>
                              cellAt(grouped[k], c)
                                  = cellAt(padded[NthBlockStart(padded, k)], c)

LeadingRowsDiscardedWitness ==
    /\ LeadingNoise
    /\ wordPadded = <<<<<<>>, <<>>, <<"t","o"," ","v","e","n","d","o","r">>>>,
                      <<<<"0","1","/","0","2","/","2","0","2","4">>, <<"R","E","F","1">>, <<"P","a","y","m","e","n","t">>>>>>
    /\ wordHeaders = NarrowHeader
    /\ table[1].rows = <<<<<<"0","1","/","0","2","/","2","0","2","4">>, <<"R","E","F","1">>, <<"P","a","y","m","e","n","t">>>>>>
    /\ table[1].transactions[1].description = <<"P","a","y","m","e","n","t">>

(***************************************************************************)
(* Properties of header scoring and of multi-table merging                 *)
(***************************************************************************)
\* the best score among the scored rows of a table, and the earliest scored
\* row that has it
BestScore(rows) ==
    CHOOSE b \in {rowScore(rows[i]) : i \in ScoredRows(rows)} :
        \A i \in ScoredRows(rows) : rowScore(rows[i]) <= b
HeaderPosition(rows) ==
    Least({i \in ScoredRows(rows) : rowScore(rows[i]) = BestScore(rows)})

\* the tables that yield a header
HeaderTables == {t \in 1..Len(wordTables) : ~Headerless(wordTables[t])}

\* C19: per-table header detection: only the first 10 rows are scored, the
\* score of a row is the number of the seven keywords found, whatever the
\* case, in its cells joined by spaces, the header is the earliest row of
\* the best score, and a table with no scored row above 0 gives the result
\* neither a header nor a data row.
HeaderIsEarliestBestRow ==
    /\ rowScore(WideHeader) = 6
    /\ rowScore(<<<<"B","O","O","K"," ","D","A","T","E"," ">>, <<"R","E","F","E","R","E","N","C","E">>, <<"M","e","m","o">>>>) = 2
    /\ rowScore(<<<<"V","a","l","u","e">>, <<"D","a","t","e">>>>) = 1
    /\ rowScore(NoiseRow) = 0
    /\ WordTablesRead =>
           /\ \A t \in 1..Len(wordTables) :
                  LET rows == wordTables[t]
                      h    == findHeaderRow(rows, 0, 0, -1)
                  IN  /\ (h.headerIndex = -1) = Headerless(rows)
                      /\ ~Headerless(rows) =>
                             /\ h.headerIndex + 1 = HeaderPosition(rows)
                             /\ h.headerIndex < HeaderScanLimit
                             /\ h.tableBestScore = BestScore(rows)
           /\ wordScan = scanTables(SelectSeq(wordTables, LAMBDA rows : ~Headerless(rows)))
           /\ HeaderTables = {} => pc = "failed" /\ table = None
           /\ pc = "done" =>
                  \E t \in HeaderTables :
                      table[1].headers
                          = resolveHeaders([chosenHeaders |->
                                trimAll(wordTables[t][HeaderPosition(wordTables[t])])])

\* the table whose header is its eleventh row gives nothing: the one row
\* returned is that of the second table
HeaderIsEarliestBestRowWitness ==
    /\ pc = "done"
    /\ file.content = Docx(<<LateHeaderTable, ShopTable>>)
    /\ table[1].headers = WideHeader
    /\ Len(table[1].rows) = 1
    /\ table[1].rows[1][2] = <<"A","B","C","1","2","3","4","5">>

\* the rows a table gives the combined row set: those after its header row
\* that are not entirely blank; none for a table without a header
DataRowsOf(rows) ==
    IF Headerless(rows) THEN << >>
    ELSE SelectSeq(SubSeq(rows, HeaderPosition(rows) + 1, Len(rows)), someNonBlank)

\* the header-bearing table of the highest score, the earliest on a tie
BestTable ==
    Least({t \in HeaderTables :
              \A u \in HeaderTables : BestScore(wordTables[u]) <= BestScore(wordTables[t])})

\* C20: multi-table merging: the header chosen for the document is that of
\* the table with the highest header score, the earliest such table on a
\* tie, and the combined row set is the concatenation, in table order, of
\* the rows after each header-bearing table's own header row, less the rows
\* that are entirely blank; rows above a header row and header rows are not
\* in it.
BestHeaderAndRowsInTableOrder ==
    WordTablesRead =>
        LET expected == ConcatAll([t \in 1..Len(wordTables) |-> DataRowsOf(wordTables[t])])
            scan     == wordScan
            best     == BestTable
            padded   == wordPadded
        IN  /\ scan.mergedRows = expected
            /\ HeaderTables # {} =>
                   /\ scan.chosenHeaders
                          = trimAll(wordTables[best][HeaderPosition(wordTables[best])])
                   /\ scan.globalBestScore = BestScore(wordTables[best])
            /\ (pc = "failed") = (expected = << >>)
            /\ pc = "done" =>
                   /\ table[1].headers = resolveHeaders(scan)
                   /\ Len(padded) = Len(expected)
                   /\ \A r \in 1..Len(expected) : \A c \in 1..Len(expected[r]) :
                          padded[r][c] = trim(expected[r][c])

\* two tables whose headers both score 3, a headerless one between them: the
\* header is that of the first, the rows are those below the headers, the
\* second header row of the last table among them, the blank row left out
BestHeaderAndRowsWitness ==
    /\ pc = "done"
    /\ file.content = Docx(<<OtherTable, CoverTable, TwoHeaderRowsTable>>)
    /\ table[1].headers = OtherHeader
    /\ wordPadded = <<<<<<"0","2","/","0","2","/","2","0","2","4">>, <<"5",".","0","0">>, <<>>>>,
                      OtherHeader,
                      <<<<"0","1","/","0","2","/","2","0","2","4">>, <<"R","E","F","1">>, <<"P","a","y","m","e","n","t">>>>>>

(***************************************************************************)
(* Properties of the assembler                                             *)
(***************************************************************************)
\* the lowercased headers of the table returned, and the value the debit and
\* the credit column of a row normalize to
tableHeadersLower == normalizeHeaders(table[1].headers)
OwnDebit(row) == parseAmount(get(row, findColumnIndex(tableHeadersLower, DebitNames)))
OwnCredit(row) == parseAmount(get(row, findColumnIndex(tableHeadersLower, CreditNames)))
\* the whole-row rescan runs on the row
RescanRuns(row) == OwnDebit(row) = 0 /\ OwnCredit(row) = 0
RowText(row) == join(row, <<" ">>)

\* C21: the whole-row rescan runs if and only if both the debit cell and the
\* credit cell normalize to 0; when it runs, debit is parseAmount of the
\* space-joined row text iff that text holds "debit" in any case, and
\* likewise credit for "credit"; in every other case debit and credit are
\* the normalized values of their own columns.
FallbackRescansWholeRow ==
    pc = "done" =>
        \A k \in 1..Len(table[1].transactions) :
            LET row == table[1].rows[k]
                t   == table[1].transactions[k]
                low == toLowerCase(RowText(row))
            IN  /\ (RescanRuns(row) /\ includes(low, <<"d","e","b","i","t">>)) =>
                       t.debit = parseAmount(RowText(row))
                /\ ~(RescanRuns(row) /\ includes(low, <<"d","e","b","i","t">>)) =>
                       t.debit = OwnDebit(row)
                /\ (RescanRuns(row) /\ includes(low, <<"c","r","e","d","i","t">>)) =>
                       t.credit = parseAmount(RowText(row))
                /\ ~(RescanRuns(row) /\ includes(low, <<"c","r","e","d","i","t">>)) =>
                       t.credit = OwnCredit(row)

\* the rescan gives the first row its debit and leaves its credit at 0; the
\* second row has a credit of its own, so its "debit 2" is not read
FallbackRescansWholeRowWitness ==
    /\ pc = "done" /\ extractor = "excel"
    /\ table[1].headers = FallbackHeader
    /\ table[1].rows = <<<<<<"d","e","b","i","t"," ","n","o","t","e"," ","1","2",".","5","0">>, <<>>, <<>>>>,
                         <<<<"d","e","b","i","t"," ","2">>, <<>>, <<"8",".","0","0">>>>>>
    /\ table[1].transactions[1].debit = 1250
    /\ table[1].transactions[1].credit = 0
    /\ table[1].transactions[2].debit = 0
    /\ table[1].transactions[2].credit = 800

(***************************************************************************)
(* Properties of the boilerplate filter                                    *)
(***************************************************************************)
\* the block-start rows whose own text holds no boilerplate phrase
CleanBlockStarts ==
    {i \in BlockStarts(wordPadded) :
        ~boilerplateTest(toLowerCase(join(wordPadded[i], <<" ">>)))}

\* C22: boilerplate filtering never removes a genuine transaction because of
\* a neighbouring row: every block-start row whose own cells hold none of the
\* boilerplate phrases yields a logical row in the output, also when a
\* dateless footer row such as "Closing Balance" follows it.
FooterRowDropsNoTransaction ==
    (WordTablesRead /\ pc = "done") =>
        /\ Len(table[1].rows) >= Cardinality(CleanBlockStarts)
        /\ \A i \in CleanBlockStarts :
               \E k \in 1..Len(table[1].rows) :
                   cellAt(table[1].rows[k], 0) = cellAt(wordPadded[i], 0)

(***************************************************************************)
(* Properties of the column roles                                          *)
(***************************************************************************)
\* the index the assembler resolves for a role on the table returned
RoleIndex(names) == findColumnIndex(tableHeadersLower, names)

\* C23: column roles are disjoint: the indices resolved for bookDate,
\* valueDate, reference, description, debit, credit and balance are pairwise
\* different whenever they are not -1; under the headers Date, Ref,
\* Description, Withdrawal, Deposit, Balance the credit role is the Deposit
\* column, and a lone Value Date header is not also the book date.
ColumnRolesDisjoint ==
    pc = "done" =>
        /\ \A a \in RoleNames : \A b \in RoleNames \ {a} :
               RoleIndex(a) # -1 => RoleIndex(a) # RoleIndex(b)
        /\ table[1].headers = DepositHeader =>
               /\ RoleIndex(CreditNames) = 4
               /\ \A k \in 1..Len(table[1].transactions) :
                      table[1].transactions[k].credit
                          = parseAmount(get(table[1].rows[k], 4))
        /\ (/\ RoleIndex(ValueDateNames) # -1
            /\ \A i \in 1..Len(tableHeadersLower) :
                   i - 1 # RoleIndex(ValueDateNames) =>
                       ~includes(tableHeadersLower[i], <<"d","a","t","e">>)) =>
               RoleIndex(BookDateNames) = -1

(***************************************************************************)
(* Properties of the empty result                                          *)
(***************************************************************************)
NoTransactionsFound == "No transactions found across tables"

\* C24: structural emptiness is a hard failure in the table-document path:
\* whenever parseWord returns, the table returned holds at least one
\* transaction; a document whose tables hold non-blank data rows but no row
\* with a date in its first cell, or only boilerplate rows, fails with
\* NoTransactionsFound and returns no empty transaction list.
EmptyResultFails ==
    WordTablesRead =>
        /\ pc = "done" => Len(table[1].transactions) >= 1
        /\ (/\ Len(wordTables) > 0
            /\ \/ Len(wordScan.mergedRows) = 0
               \/ BlockStarts(wordPadded) = {}
               \/ \A i \in 1..Len(wordPadded) :
                      boilerplateTest(toLowerCase(join(wordPadded[i], <<" ">>)))) =>
               pc = "failed" /\ err = NoTransactionsFound

(***************************************************************************)
(* Properties of the dates of block starts                                 *)
(***************************************************************************)
\* C25: the merger's block-start test and the date normalizer agree: in the
\* table-document path with the book-date column resolved to column 0,
\* every transaction produced has a bookDate that passes the validator's
\* book-date rule, so every first cell accepted as a block start, such as
\* "01/02/24" or a cell with a date among other text, is turned into
\* YYYY-MM-DD by parseDateFlexible.
BlockStartDatesAreCanonical ==
    (WordTablesRead /\ pc = "done" /\ RoleIndex(BookDateNames) = 0) =>
        /\ \A k \in 1..Len(table[1].transactions) :
               isoDatePrefix(table[1].transactions[k].bookDate)
        /\ \A i \in BlockStarts(wordPadded) :
               isoDatePrefix(parseDateFlexible(cellAt(wordPadded[i], 0)))

(***************************************************************************)
(* Properties of the amounts adopted                                       *)
(***************************************************************************)
\* the blocks whose cell idx is empty and whose first continuation row
\* holds there a cell that parseAmount reads as a non-zero amount
AdoptableBlocks(idx) ==
    {k \in 1..Cardinality(BlockStarts(wordPadded)) :
        LET first == NthBlockStart(wordPadded, k)
        IN  /\ BlockEnd(wordPadded, k) > first
            /\ cellAt(wordPadded[first], idx) = << >>
            /\ parseAmount(cellAt(wordPadded[first + 1], idx)) # 0}

\* C26: the merger's numeric-amount pattern and the amount normalizer agree:
\* whenever a block's own debit, credit or balance cell is empty and the
\* first continuation row carries in that column a cell that parseAmount
\* turns into a non-zero amount ("1500", "1500.5", "250"), the block adopts
\* that cell and the transaction carries that amount.  Stated for the
\* layouts whose description column is none of the three columns.
AdoptsEveryParsedAmount ==
    (WordTablesRead /\ pc = "done") =>
        LET cols == wordColumns(wordHeaders)
            amts == {cols.debit, cols.credit, cols.balance} \ {-1}
        IN  descIndexOf(cols.description) \notin amts =>
                \A idx \in amts : \A k \in AdoptableBlocks(idx) :
                    LET cell == cellAt(wordPadded[NthBlockStart(wordPadded, k) + 1], idx)
                    IN  /\ cellAt(wordGrouped[k], idx) = cell
                        /\ (table[1].rows = wordGrouped /\ idx = cols.debit) =>
                               table[1].transactions[k].debit = parseAmount(cell)

(***************************************************************************)
(* Properties of the grid handed to the assembler                          *)
(***************************************************************************)
\* the grid the extractor of the file in hand hands to parseTableData
InputGrid ==
    IF extractor = "excel"
    THEN [headers |-> trimAll(file.content.sheet[1]),
          rows    |-> [i \in 1..(Len(file.content.sheet) - 1) |->
                          trimAll(file.content.sheet[i + 1])]]
    ELSE [headers |-> wordHeaders, rows |-> filterRows(wordGrouped)]

\* C27: the assembler is one-to-one and order-preserving: the table returned
\* has exactly as many transactions as rows, transactions[i] is computed
\* from rows[i] alone, no row is skipped, not a blank one and not one with
\* both amounts 0, and the headers and rows returned are the input grid
\* unchanged.
AssemblerIsOneToOne ==
    pc = "done" =>
        /\ table[1].headers = InputGrid.headers
        /\ table[1].rows = InputGrid.rows
        /\ Len(table[1].transactions) = Len(table[1].rows)
        /\ \A i \in 1..Len(table[1].rows) :
               /\ table[1].transactions[i]
                      = assembleRow(table[1].rows[i], tableHeadersLower)
               /\ table[1].transactions[i].description
                      = get(table[1].rows[i], RoleIndex(DescriptionNames))
               /\ \A j \in 1..Len(table[1].rows) :
                      table[1].rows[i] = table[1].rows[j] =>
                          table[1].transactions[i] = table[1].transactions[j]

\* a sheet of a blank row and of a row without amounts: two rows, two
\* transactions in the order of the rows, each of debit 0 and credit 0
AssemblerIsOneToOneWitness ==
    /\ pc = "done" /\ extractor = "excel"
    /\ table[1].headers = NarrowHeader
    /\ table[1].rows = <<<<<<>>, <<>>, <<>>>>, <<<<"2"," ","F","E","B"," ","2","0","2","4">>, <<"R","E","F","2">>, <<>>>>>>
    /\ Len(table[1].transactions) = 2
    /\ table[1].transactions[1].bookDate = <<>>
    /\ table[1].transactions[2].bookDate = <<"2","0","2","4","-","0","2","-","0","2">>
    /\ \A i \in 1..2 :
           table[1].transactions[i].debit = 0 /\ table[1].transactions[i].credit = 0

(***************************************************************************)
(* Properties of the width of the merged rows                              *)
(***************************************************************************)
\* headerLen: the larger of the header count and the width of the widest row
headerLenOf(chosenHeaders, mergedRows) ==
    Max(Len(chosenHeaders), MaxRowLength(mergedRows))

\* C28: merging keeps the grid rectangular: every logical row the merger
\* produces has exactly headerLen cells, in every header layout, also in a
\* document of fewer than three columns whose description column is
\* unresolved, the description index defaulting to 2.
MergedRowsRectangular ==
    (WordTablesRead /\ pc = "done") =>
        LET headerLen == headerLenOf(wordHeaders, wordScan.mergedRows)
        IN  /\ \A i \in 1..Len(wordPadded) : Len(wordPadded[i]) = headerLen
            /\ \A k \in 1..Len(wordGrouped) : Len(wordGrouped[k]) = headerLen
            /\ \A k \in 1..Len(table[1].rows) : Len(table[1].rows[k]) = headerLen

(***************************************************************************)
(* The upload mutation of the receipt form: uploadMutation.mutationFn and  *)
(* the three TransactionService methods it awaits.  A step of the machine  *)
(* is what runs between two awaits; the catch and finally clauses run in   *)
(* the step in which the error is thrown.  Whether a call to the storage   *)
(* or to the database succeeds is the environment's choice.                *)
(***************************************************************************)
\* FileParsingService.parseFile as one call: the outcome of the extractor
\* the dispatcher selects
parseFile(f) ==
    LET selected == selectExtractor(f.type, toLowerCase(f.name))
    IN  IF selected = "none" THEN Failure(UnsupportedMessage)
        ELSE IF selected = "pdf" THEN parsePDF(f.content)
        ELSE IF selected = "word" THEN parseWord(f.content)
        ELSE parseExcel(f.content)

\* The validation report not looked at.
acceptedUnvalidated(parsed) == TRUE

\* if (!validation.valid) throw ...: the parse goes on to be stored
accepted(parsed) ==
    validateTransactions([given |-> TRUE, list |-> parsed.transactions]).valid

ServiceCalls == <<"uploadFile", "createReceipt", "createTransactions">>

\* catch (error) { throw error } finally { setIsProcessing(false) }
Reject(message) ==
    /\ pc' = "rejected"
    /\ err' = message
    /\ isProcessing' = FALSE

\* uploadMutation.mutate: the mutation function up to its first await
Mutate ==
    /\ pc = "form"
    /\ isProcessing' = TRUE
    /\ err' = ""
    /\ pc' = "parsing"
    /\ UNCHANGED <<file, extractor, table, arg, ret,
                   receiptsBucket, receiptsTable, transactionsTable, calls>>

\* what follows the await of parseFile, for its outcome: the error is
\* thrown on, or the transactions are validated and uploadFile is called
AfterParseFile(parsed) ==
    IF parsed.error # ""
    THEN Reject(parsed.error) /\ UNCHANGED <<table, calls>>
    ELSE /\ table' = parsed.table
         /\ IF accepted(parsed.table[1])
            THEN /\ calls' = Append(calls, "uploadFile")
                 /\ pc' = "uploadFile"
                 /\ UNCHANGED <<err, isProcessing>>
            ELSE Reject("Validation failed") /\ UNCHANGED calls

\* parseFile settles
AwaitParseFile ==
    /\ pc = "parsing"
    /\ AfterParseFile(parseFile(file))
    /\ UNCHANGED <<file, extractor, arg, ret,
                   receiptsBucket, receiptsTable, transactionsTable>>

\* uploadFile settles: the object is stored and createReceipt is called, or
\* the user is not signed in or the storage refuses
AwaitUploadFile ==
    /\ pc = "uploadFile"
    /\ \E stored \in BOOLEAN :
           IF stored
           THEN /\ receiptsBucket' = receiptsBucket \cup {file.name}
                /\ calls' = Append(calls, "createReceipt")
                /\ pc' = "createReceipt"
                /\ UNCHANGED <<err, isProcessing>>
           ELSE /\ Reject("Failed to upload file")
                /\ UNCHANGED <<receiptsBucket, calls>>
    /\ UNCHANGED <<file, extractor, table, arg, ret, receiptsTable, transactionsTable>>

\* createReceipt settles: the record is inserted with processed: false and
\* createTransactions is called, or the insert fails
AwaitCreateReceipt ==
    /\ pc = "createReceipt"
    /\ \E inserted \in BOOLEAN :
           IF inserted
           THEN /\ receiptsTable' =
                       Append(receiptsTable,
                              [id        |-> Len(receiptsTable) + 1,
                               filename  |-> file.name,
                               file_url  |-> file.name,
                               processed |-> FALSE])
                /\ calls' = Append(calls, "createTransactions")
                /\ pc' = "createTransactions"
                /\ UNCHANGED <<err, isProcessing>>
           ELSE /\ Reject("Failed to create receipt")
                /\ UNCHANGED <<receiptsTable, calls>>
    /\ UNCHANGED <<file, extractor, table, arg, ret, receiptsBucket, transactionsTable>>

\* the rows createTransactions inserts for a receipt
transactionData(receiptId, parsedTransactions) ==
    [i \in 1..Len(parsedTransactions) |->
        [receipt_id |-> receiptId, transaction |-> parsedTransactions[i]]]

\* .update({ processed: true }).eq('id', receiptId)
markProcessed(receipts, receiptId) ==
    [i \in 1..Len(receipts) |->
        IF receipts[i].id = receiptId
        THEN [receipts[i] EXCEPT !.processed = TRUE] ELSE receipts[i]]

\* createTransactions settles: the insert fails and the error is thrown, or
\* the rows are inserted and the receipt is updated; the outcome of the
\* update is not looked at, so the mutation succeeds whether or not it took
AwaitCreateTransactions ==
    /\ pc = "createTransactions"
    /\ LET receiptId == receiptsTable[Len(receiptsTable)].id
       IN  \E outcome \in {"failed", "inserted", "insertedNotMarked"} :
               IF outcome = "failed"
               THEN /\ Reject("Failed to create transactions")
                    /\ UNCHANGED <<receiptsTable, transactionsTable>>
               ELSE /\ transactionsTable' =
                           transactionsTable
                               \o transactionData(receiptId, table[1].transactions)
                    /\ receiptsTable' =
                           IF outcome = "inserted"
                           THEN markProcessed(receiptsTable, receiptId)
                           ELSE receiptsTable
                    /\ pc' = "succeeded"
                    /\ isProcessing' = FALSE
                    /\ UNCHANGED err
    /\ UNCHANGED <<file, extractor, table, arg, ret, receiptsBucket, calls>>

NextUpload ==
    \/ Mutate
    \/ AwaitParseFile
    \/ AwaitUploadFile
    \/ AwaitCreateReceipt
    \/ AwaitCreateTransactions

InitUpload ==
    /\ pc = "form"
    /\ file \in Files
    /\ extractor = "none"
    /\ table = None
    /\ err = ""
    /\ arg = None
    /\ ret = None
    /\ NoUpload

SpecUpload == InitUpload /\ [][NextUpload]_vars

(***************************************************************************)
(* Properties of the upload mutation                                       *)
(***************************************************************************)
\* the mutation has finished
Finished == pc \in {"succeeded", "rejected"}
\* nothing of the attempt is stored
NothingPersisted ==
    receiptsBucket = {} /\ receiptsTable = << >> /\ transactionsTable = << >>
\* parseFile succeeded on the file and the validator found its transactions valid
ParseAccepted ==
    LET parsed == parseFile(file)
    IN  /\ parsed.error = ""
        /\ validateTransactions([given |-> TRUE,
                                 list  |-> parsed.table[1].transactions]).valid

\* C29: in the upload mutation nothing is persisted before the parse is
\* accepted: uploadFile, createReceipt and createTransactions are invoked,
\* in that order, only after parseFile has succeeded and validateTransactions
\* has returned valid = true; when parsing raises or validation is invalid
\* none of the three is invoked, and the processing flag is false again once
\* the mutation has finished, whatever its outcome.
PersistOnlyAfterAcceptedParse ==
    LET parseAccepted == ParseAccepted
    IN  /\ \E n \in 0..Len(ServiceCalls) : calls = SubSeq(ServiceCalls, 1, n)
        /\ (calls # << >> \/ ~NothingPersisted) =>
               /\ table # None
               /\ parseAccepted
        /\ receiptsBucket # {} => Len(calls) >= 2
        /\ receiptsTable # << >> => Len(calls) = 3
        /\ transactionsTable # << >> => pc = "succeeded"
        /\ pc = "succeeded" => calls = ServiceCalls
        /\ (Finished /\ ~parseAccepted) =>
               /\ pc = "rejected" /\ err # ""
               /\ calls = << >>
               /\ NothingPersisted
        /\ Finished => isProcessing = FALSE
        /\ pc \notin {"form", "succeeded", "rejected"} => isProcessing = TRUE

\* the shop payment went through: the three methods were invoked in order
\* and the flag is down
PersistOnlyAfterAcceptedParseWitness ==
    /\ pc = "succeeded"
    /\ file.content = ShopPaymentDocument
    /\ calls = ServiceCalls
    /\ isProcessing = FALSE
    /\ Len(transactionsTable) = 1
    /\ transactionsTable[1].transaction.reference = <<"A","B","C","1","2","3","4","5">>

\* the transactions stored for a receipt
StoredFor(receiptId) ==
    SelectSeq(transactionsTable, LAMBDA row : row.receipt_id = receiptId)

\* C30: the upload mutation is all-or-nothing with respect to persisted
\* state: if a later step fails (createReceipt after uploadFile, or
\* createTransactions after createReceipt), no stored file and no receipt
\* record of the attempt remain, and a receipt record is marked processed
\* exactly when all of its transactions have been inserted.
UploadIsAllOrNothing ==
    Finished =>
        /\ pc = "rejected" => receiptsBucket = {} /\ receiptsTable = << >>
        /\ \A i \in 1..Len(receiptsTable) :
               receiptsTable[i].processed
                   = (Len(StoredFor(receiptsTable[i].id)) = Len(table[1].transactions))
=============================================================================
